---- MODULE Spec2Model ----
(***************************************************************************)
(* ContextWeave: the SubAgent environment manager (spawn / start /         *)
(* handoff / complete / recover / doctor over the registry in state.json,  *)
(* git branches, worktree checkouts and git notes) and the workflow        *)
(* orchestrator (run_workflow with its graph and sequential strategies).   *)
(***************************************************************************)
EXTENDS Integers, Sequences, FiniteSets, TLC

\* ------------------------------------------------------------------ bounds
MaxIssue == 2        \* issue numbers are 1..MaxIssue
MaxOps == 2          \* CLI operations per behaviour
MaxChainOps == 5     \* CLI operations per behaviour of the handoff chain
MaxBranchOps == 4    \* CLI operations per behaviour of the branch clean-up
MaxMemOps == 4       \* calls per behaviour of the memory store
MAX_EXECUTIONS == 2  \* Memory.MAX_EXECUTIONS (500), scaled down
MAX_LESSONS == 2     \* Memory.MAX_LESSONS (100), scaled down
MaxLessonId == 2     \* lesson ids are 1..MaxLessonId
MaxRankLessons == 2  \* lessons in a store that is ranked
MaxLimit == 2        \* the limit of a ranking is 0..MaxLimit
MAX_SESSIONS_PER_ISSUE == 2  \* Memory.MAX_SESSIONS_PER_ISSUE (10), scaled down
max_branch_length == 12      \* spawn_cmd max_branch_length (80), scaled down
MaxTitleLen == 5     \* characters of a title hint

Issues == 1..MaxIssue

\* ------------------------------------------------------- program constants
Roles == {"pm", "architect", "engineer", "reviewer", "ux"}

NoRole == "none"

\* A successor table that sends the reviewer back to the pm
ROLE_NEXT_cycle ==
  [r \in Roles |->
     CASE r = "pm" -> "architect"
       [] r = "architect" -> "engineer"
       [] r = "engineer" -> "reviewer"
       [] r = "reviewer" -> "pm"
       [] r = "ux" -> "engineer"]

\* subagent.py ROLE_NEXT; None is NoRole
ROLE_NEXT ==
  [r \in Roles |->
     CASE r = "pm" -> "architect"
       [] r = "architect" -> "engineer"
       [] r = "engineer" -> "reviewer"
       [] r = "reviewer" -> NoRole
       [] r = "ux" -> "engineer"]

\* validate.py DOD_CHECKLISTS: the check ids of each role, in order
DOD_CHECKLISTS ==
  [r \in Roles |->
     CASE r = "pm" ->
            <<"prd_exists", "child_issues", "acceptance_criteria",
              "success_metrics", "timeline">>
       [] r = "architect" ->
            <<"adr_exists", "spec_exists", "options_documented",
              "decision_rationale", "no_code_examples">>
       [] r = "engineer" ->
            <<"code_committed", "tests_written", "tests_passing",
              "docs_updated", "no_lint_errors", "security_scan">>
       [] r = "reviewer" ->
            <<"review_doc", "checklist_verified", "decision_documented",
              "feedback_provided">>
       [] r = "ux" ->
            <<"ux_doc", "wireframes", "user_flows", "accessibility">>]

\* --------------------------------------------------------------- the state
VARIABLES
  worktrees,     \* state.json "worktrees": sequence of WorktreeInfo
  local_issues,  \* state.json "local_issues": the issue numbers it holds
  branches,      \* git: the branches that exist
  unmerged,      \* git: branches holding commits that main does not
  checkout,      \* disk: per issue, the worktree directory worktrees/<issue>
  notes,         \* git notes --ref=context, per branch
  executions,    \* memory.json "executions"
  lessons,       \* memory.json "lessons"
  metrics,       \* memory.json "metrics"
  recorded,      \* every record handed to Memory.record_execution, in order
  ranked,        \* the last get_lessons_for_context call: query and result
  sessions,      \* memory.json "sessions": per issue, the sessions kept
  saved,         \* per issue, every session handed to save_session, in order
  file,          \* disk: what state.json and memory.json hold
  saving,        \* per store, whether a save has the file open for writing
  loaded,        \* the last _load: the store, what it read, what it yielded
  rq,            \* the remote request in _github_request_with_retry
  bn,            \* the last branch name derived, and the same derived again
  rt,            \* the last round trip: what went in and what came back
  keyring,       \* the secret store: the token kept under context-weave/github_token
  statedoc,      \* state.json: its auth and github sections
  last,          \* outcome of the last CLI operation
  nops,          \* CLI operations performed
  budget,        \* CLI operations a behaviour may perform
  wf_pc,         \* run_workflow: where the run stands
  wf_args,       \* run_workflow: its arguments and the SDK it finds
  wf_steps,      \* run_workflow: the resolved role sequence
  wf_idx,        \* index into wf_steps of the next role to invoke
  wf_input,      \* _run_sequential current_input: what the next agent is given
  wf_invoked,    \* every agent invocation made, in order
  wf_outputs,    \* outputs: the roles holding an output
  wf_completed,  \* steps_completed
  wf_results,    \* step_results
  wf_records,    \* ExecutionRecords written by _record_execution
  wf_result      \* the WorkflowResult returned, or NoResult

\* what the calls on lessons and executions leave alone
auxvars == <<ranked, sessions, saved, file, saving, loaded, rq, bn, rt,
            keyring, statedoc>>

memvars == <<lessons, metrics, recorded, auxvars>>

sysvars == <<worktrees, local_issues, branches, unmerged, checkout, notes,
             executions, lessons, metrics>>

envvars == <<worktrees, local_issues, branches, unmerged, checkout, notes,
             executions, memvars, last, nops, budget>>

wfvars == <<wf_pc, wf_args, wf_steps, wf_idx, wf_input, wf_invoked,
            wf_outputs, wf_completed, wf_results, wf_records, wf_result>>

vars == <<envvars, wfvars>>

\* title hints given to spawn/start; "" is spawn's missing --title
TitleHints == {""}

\* titles that make one branch name of an issue the beginning of another:
\* `--title task` gives issue-<n>-task, no title gives issue-<n>-task-<n>
BranchTitles == {"", "task"}

\* spawn_cmd: branch_suffix = title or f"task-{issue}", prefix issue-<n>-;
\* the suffix is kept as its words, the text between the dashes
BranchName(issue, title) ==
  [issue |-> issue,
   sfx |-> IF title = "" THEN <<"task", issue>> ELSE <<title>>]

AllBranches ==
  {BranchName(i, t) : i \in Issues, t \in TitleHints \cup BranchTitles}

\* `name(b) in line`, the test complete_cmd applies to each line of
\* `git branch --merged main`: the line names branch c. Both names start
\* with issue-<n>-, so b's name occurs in c's only at its beginning.
NameContains(c, b) ==
  /\ c.issue = b.issue
  /\ Len(b.sfx) <= Len(c.sfx)
  /\ SubSeq(c.sfx, 1, Len(b.sfx)) = b.sfx

NoNote == [role |-> NoRole, status |-> "absent"]
NoCheckout == [exists |-> FALSE, branch |-> "none", dirty |-> FALSE]

WorktreeInfo(issue, branch, role) ==
  [issue |-> issue, branch |-> branch, role |-> role]

\* ------------------------------------------------------ State (state.py)
RECURSIVE FirstIndex(_, _, _)
FirstIndex(ws, issue, k) ==
  IF k > Len(ws) THEN 0
  ELSE IF ws[k].issue = issue THEN k
  ELSE FirstIndex(ws, issue, k + 1)

\* A lookup that compares the issue as text and so never finds an entry
get_worktree_text(ws, issue) == 0

\* A lookup that returns the first entry whatever its issue
get_worktree_first(ws, issue) == IF ws = <<>> THEN 0 ELSE 1

\* State.get_worktree: index of the first entry of the issue, 0 for None
get_worktree(ws, issue) == FirstIndex(ws, issue, 1)

HasWorktree(ws, issue) == get_worktree(ws, issue) # 0

\* State.add_worktree
add_worktree(ws, w) == Append(ws, w)

RemoveAt(ws, k) ==
  [j \in 1..(Len(ws) - 1) |-> IF j < k THEN ws[j] ELSE ws[j + 1]]

\* State.remove_worktree: pops the first entry of the issue
remove_worktree(ws, issue) ==
  IF get_worktree(ws, issue) = 0 THEN ws
  ELSE RemoveAt(ws, get_worktree(ws, issue))

\* State.update_worktree_role
update_worktree_role(ws, issue, role) ==
  IF get_worktree(ws, issue) = 0 THEN ws
  ELSE [ws EXCEPT ![get_worktree(ws, issue)].role = role]

\* State.get_branch_note: the note, or None (NoNote) when git cannot show it
get_branch_note(ns, bs, b) == IF b \in bs THEN ns[b] ELSE NoNote

\* State.set_branch_note: the notes after `git notes add -f`; nothing is
\* written when the call exits non-zero (ok = FALSE, the method returns
\* False) or git cannot resolve refs/heads/<branch>
set_branch_note(ns, bs, b, data, ok) ==
  IF ok /\ b \in bs THEN [ns EXCEPT ![b] = data] ELSE ns

\* A window cut at the wrong end: executions[:MAX_EXECUTIONS]
record_execution_oldest(ex, rec) ==
  LET all == Append(ex, rec) IN
  IF Len(all) > MAX_EXECUTIONS THEN SubSeq(all, 1, MAX_EXECUTIONS) ELSE all

\* Memory.record_execution: append, then keep the last MAX_EXECUTIONS
record_execution(ex, rec) ==
  LET all == Append(ex, rec) IN
  IF Len(all) > MAX_EXECUTIONS
  THEN SubSeq(all, Len(all) - MAX_EXECUTIONS + 1, Len(all))
  ELSE all

\* Memory._default_memory: "metrics", by_role read with its defaults
NoMetrics ==
  [total_executions |-> 0, success_count |-> 0, failure_count |-> 0,
   partial_count |-> 0,
   by_role |-> [r \in Roles |-> [total |-> 0, success |-> 0, failure |-> 0]]]

\* Role statistics that count only the decided outcomes
update_metrics_decided(m, rec) ==
  LET old == m.by_role[rec.role]
      decided == rec.outcome \in {"success", "failure"}
      stats == [total |-> old.total + (IF decided THEN 1 ELSE 0),
                success |-> old.success
                            + (IF rec.outcome = "success" THEN 1 ELSE 0),
                failure |-> old.failure
                            + (IF rec.outcome = "failure" THEN 1 ELSE 0)]
  IN
  [total_executions |-> m.total_executions + 1,
   success_count |-> m.success_count
                     + (IF rec.outcome = "success" THEN 1 ELSE 0),
   failure_count |-> m.failure_count
                     + (IF rec.outcome = "failure" THEN 1 ELSE 0),
   partial_count |-> m.partial_count + (IF decided THEN 0 ELSE 1),
   by_role |-> [m.by_role EXCEPT ![rec.role] = stats]]

\* Memory._update_metrics
update_metrics(m, rec) ==
  LET old == m.by_role[rec.role]
      stats == [total |-> old.total + 1,
                success |-> old.success
                            + (IF rec.outcome = "success" THEN 1 ELSE 0),
                failure |-> old.failure
                            + (IF rec.outcome = "failure" THEN 1 ELSE 0)]
  IN
  [total_executions |-> m.total_executions + 1,
   success_count |-> m.success_count
                     + (IF rec.outcome = "success" THEN 1 ELSE 0),
   failure_count |-> m.failure_count
                     + (IF rec.outcome = "failure" THEN 1 ELSE 0),
   partial_count |-> m.partial_count
                     + (IF rec.outcome \notin {"success", "failure"}
                        THEN 1 ELSE 0),
   by_role |-> [m.by_role EXCEPT ![rec.role] = stats]]

ExecutionRecord(issue, role, action, outcome) ==
  [issue |-> issue, role |-> role, action |-> action, outcome |-> outcome]

Result(op, issue, res) == [op |-> op, issue |-> issue, res |-> res]

\* No get_lessons_for_context call made yet
NoRanking ==
  [asked |-> FALSE,
   query |-> [issue_type |-> "none", role |-> "none", categories |-> {}],
   limit |-> 0, result |-> <<>>]

\* State._default_state: the auth and github sections; None is "None"
DefaultSections ==
  [github_token |-> "None", github_token_created |-> "None",
   last_sync |-> "None", issue_cache |-> {}]

\* Nothing serialized yet
NoRoundTrip == [kind |-> "none", original |-> <<>>, restored |-> <<>>]

\* No branch name derived yet
NoName == [issue |-> 0, title |-> <<>>, name |-> <<>>, again |-> <<>>]

\* No remote request made yet
NoRequest ==
  [pc |-> "idle", attempt |-> 0, seen |-> <<>>, last_error |-> "none",
   result |-> "none"]

\* ------------------------------------------------------------------ Init
\* Everything but the lessons of the memory store
InitRest ==
  /\ worktrees = <<>>
  /\ local_issues = {}
  /\ branches = {}
  /\ unmerged = {}
  /\ checkout = [i \in Issues |-> NoCheckout]
  /\ notes = [b \in AllBranches |-> NoNote]
  /\ executions = <<>>
  /\ metrics = NoMetrics
  /\ recorded = <<>>
  /\ ranked = NoRanking
  /\ sessions = [i \in Issues |-> <<>>]
  /\ saved = [i \in Issues |-> <<>>]
  /\ rq = NoRequest
  /\ bn = NoName
  /\ rt = NoRoundTrip
  /\ keyring = "None"
  /\ statedoc = DefaultSections
  /\ last = Result("init", 0, "ok")
  /\ nops = 0

\* The two persisted documents
Stores == {"state", "memory"}

\* What a store's file can hold: nothing, a file that cannot be opened,
\* text that is not JSON, bytes that are not UTF-8, JSON that is not an
\* object, an object written by save, and a file cut short
FileKinds ==
  {"absent", "unreadable", "not_json", "not_utf8", "not_object", "document",
   "truncated"}

NoLoad == [store |-> "none", observed |-> "none", outcome |-> "none"]

\* No file written yet. The specifications of the commands take each
\* command as one step and do not follow the files.
NoFiles ==
  /\ file = [st \in Stores |-> "absent"]
  /\ saving = [st \in Stores |-> FALSE]
  /\ loaded = NoLoad

InitEnv == InitRest /\ lessons = <<>> /\ NoFiles

\* One CLI invocation
Tick == nops < budget /\ nops' = nops + 1 /\ UNCHANGED <<budget, wfvars>>

\* A step taken outside the CLI
Outside == UNCHANGED <<nops, budget, wfvars, memvars>>

\* ------------------------------------------------- git, as the code uses it
\* `git worktree add --force`: takes an existing path too
GitWorktreeAddForce(co, issue, exit0) == exit0

\* `git worktree add <path> <branch>`: refuses an existing path
GitWorktreeAdd(co, issue, exit0) == exit0 /\ ~co[issue].exists

\* `git worktree remove <path> [--force]`: refuses a dirty tree unless forced
GitWorktreeRemove(co, issue, force, exit0) ==
  exit0 /\ co[issue].exists /\ (force \/ ~co[issue].dirty)

CheckedOut(co, b) == \E i \in Issues : co[i].exists /\ co[i].branch = b

\* `git branch -d <branch>`: refuses a checked-out branch and one that is
\* not fully merged in its upstream branch, or in HEAD (the trunk, checked
\* out in the repository root) when it has no upstream; tracked says the
\* branch has an upstream that holds its tip
GitBranchDelete(bs, um, co, b, tracked, exit0) ==
  exit0 /\ b \in bs /\ (tracked \/ b \notin um) /\ ~CheckedOut(co, b)

Fresh(b) == [exists |-> TRUE, branch |-> b, dirty |-> FALSE]

\* ------------------------------------------------------------ spawn_cmd
\* Outcomes of the git calls are chosen where the code makes the call:
\* exit 0 or not, and a timeout where the call is given one.
Unchanged(res) ==
  /\ last' = res
  /\ UNCHANGED <<worktrees, local_issues, branches, unmerged, checkout,
                 notes, executions, memvars>>

Spawn(issue, role, title) ==
  LET b == BranchName(issue, title) IN
  /\ Tick
  /\ UNCHANGED memvars
  /\ IF HasWorktree(worktrees, issue)
     THEN Unchanged(Result("spawn", issue, "already_exists"))
     ELSE \E listed \in {"ok", "timeout"} :
       IF listed = "timeout"
       THEN Unchanged(Result("spawn", issue, "crash"))
       ELSE \E gitBranch \in (IF b \in branches THEN {TRUE} ELSE BOOLEAN),
               gitAdd, gitNote \in BOOLEAN :
       LET made == IF b \in branches \/ gitBranch
                   THEN branches \cup {b} ELSE branches
       IN
       IF b \notin made
       THEN Unchanged(Result("spawn", issue, "failed"))
       ELSE IF ~GitWorktreeAdd(checkout, issue, gitAdd)
       THEN /\ branches' = made
            /\ last' = Result("spawn", issue, "failed")
            /\ UNCHANGED <<worktrees, local_issues, unmerged, checkout,
                           notes, executions>>
       ELSE /\ branches' = made
            /\ checkout' = [checkout EXCEPT ![issue] = Fresh(b)]
            /\ worktrees' = add_worktree(worktrees,
                                         WorktreeInfo(issue, b, role))
            /\ notes' = set_branch_note(notes, made, b,
                           [role |-> role, status |-> "spawned"], gitNote)
            /\ last' = Result("spawn", issue, "ok")
            /\ UNCHANGED <<local_issues, unmerged, executions>>

\* ------------------------------------------------------------- start_cmd
SetMax(S) == IF S = {} THEN 0 ELSE CHOOSE m \in S : \A x \in S : x <= m

\* start_cmd: issue_number = max(local_issues) + 1
NextIssueNumber(li) == SetMax(li) + 1

\* ctxOk: whether context.generate_context_file, which writes the issue's
\* context file only, returns rather than raises
Start(title, role) ==
  LET issue == NextIssueNumber(local_issues)
      b == BranchName(issue, title)
  IN
  /\ Tick
  /\ UNCHANGED memvars
  /\ issue \in Issues
  /\ local_issues' = local_issues \cup {issue}
  /\ \E listed \in {"ok", "timeout"},
        gitBranch \in (IF b \in branches THEN {TRUE} ELSE BOOLEAN),
        gitAdd, gitNote, ctxOk \in BOOLEAN :
       LET made == IF b \in branches \/ gitBranch
                   THEN branches \cup {b} ELSE branches
       IN
       IF listed = "timeout" \/ b \notin made
       THEN /\ last' = Result("start", issue,
                              IF listed = "timeout" THEN "crash" ELSE "failed")
            /\ UNCHANGED <<worktrees, branches, unmerged, checkout, notes,
                           executions>>
       ELSE IF ~GitWorktreeAdd(checkout, issue, gitAdd)
       THEN /\ branches' = made
            /\ last' = Result("start", issue, "failed")
            /\ UNCHANGED <<worktrees, unmerged, checkout, notes, executions>>
       ELSE /\ branches' = made
            /\ checkout' = [checkout EXCEPT ![issue] = Fresh(b)]
            /\ worktrees' = add_worktree(worktrees,
                                         WorktreeInfo(issue, b, role))
            /\ notes' = set_branch_note(notes, made, b,
                           [role |-> role, status |-> "in_progress"], gitNote)
            /\ last' = Result("start", issue,
                              IF ctxOk THEN "ok" ELSE "context_failed")
            /\ UNCHANGED <<unmerged, executions>>

\* ---------------------------------------------------- definition of done
DocKinds == {"prd", "adr", "spec", "review", "ux"}

\* What one DoD run finds: the docs/<kind>/<KIND>-<issue>.md files present,
\* whether `git status` ran in the worktree, and ruff's verdict
DodEnvs ==
  { [docs |-> DocKinds, statusOk |-> TRUE, lintOk |-> TRUE],
    [docs |-> {"adr"}, statusOk |-> TRUE, lintOk |-> FALSE],
    [docs |-> {}, statusOk |-> FALSE, lintOk |-> TRUE] }

\* --skip-validation: no DoD run is made
DodSkipped == [docs |-> {}, statusOk |-> FALSE, lintOk |-> FALSE]

\* validate._run_dod_check
run_dod_check(ws, co, issue, check_id, env) ==
  CASE check_id = "prd_exists" -> "prd" \in env.docs
    [] check_id = "adr_exists" -> "adr" \in env.docs
    [] check_id = "spec_exists" -> "spec" \in env.docs
    [] check_id = "review_doc" -> "review" \in env.docs
    [] check_id = "ux_doc" -> "ux" \in env.docs
    [] check_id = "code_committed" ->
         /\ HasWorktree(ws, issue)
         /\ co[issue].exists
         /\ env.statusOk
         /\ ~co[issue].dirty
    [] check_id = "tests_passing" -> TRUE
    [] check_id = "no_lint_errors" -> env.lintOk
    [] OTHER -> TRUE

\* validate._run_dod_checks_for_role: <<passed, total>> over the role's list
run_dod_checks_for_role(ws, co, issue, role, env) ==
  LET checks == DOD_CHECKLISTS[role]
      ok == {k \in 1..Len(checks) :
               run_dod_check(ws, co, issue, checks[k], env)}
  IN <<Cardinality(ok), Len(checks)>>

\* ----------------------------------------------------------- handoff_cmd
\* A next role that prefers the table to the explicit target
NextRoleTableFirst(current, to) ==
  IF ROLE_NEXT[current] # NoRole THEN ROLE_NEXT[current] ELSE to

\* handoff_cmd: next_role = to_role or ROLE_NEXT.get(current_role)
NextRole(current, to) == IF to # NoRole THEN to ELSE ROLE_NEXT[current]

\* A gate that lets the handoff proceed once any check passed
DodGateAny(skip, tally) == skip \/ tally[1] > 0

\* handoff_cmd: the DoD gate; TRUE lets the handoff proceed
DodGate(skip, tally) == skip \/ ~(tally[1] < tally[2])

Handoff(issue, to, skip, env) ==
  LET k == get_worktree(worktrees, issue)
      wt == worktrees[k]
      next_role == NextRole(wt.role, to)
      old == get_branch_note(notes, branches, wt.branch)
      data == [old EXCEPT !.status = "handoff", !.role = next_role]
  IN
  /\ Tick
  /\ UNCHANGED memvars
  /\ IF k = 0
     THEN Unchanged(Result("handoff", issue, "no_subagent"))
     ELSE IF next_role = NoRole
     THEN Unchanged(Result("handoff", issue, "no_next_role"))
     ELSE
       IF ~DodGate(skip, run_dod_checks_for_role(worktrees, checkout, issue,
                                                 wt.role, env))
       THEN Unchanged(Result("handoff", issue, "dod_failed"))
       ELSE \E gitNote, ctxOk \in BOOLEAN :
         /\ worktrees' = update_worktree_role(worktrees, issue, next_role)
         /\ notes' = set_branch_note(notes, branches, wt.branch, data, gitNote)
         /\ last' = Result("handoff", issue,
                           IF ctxOk THEN "ok" ELSE "context_failed")
         /\ UNCHANGED <<local_issues, branches, unmerged, checkout,
                        executions>>

\* ---------------------------------------------------------- complete_cmd
RemoteOutcomes == {"ok", "error", "missing", "timeout"}

\* State.save is taken to succeed. memOk: whether the memory layer recorded
\* the completion; its failure is logged and swallowed.
Complete(issue, force, keep_branch, push, create_pr) ==
  LET k == get_worktree(worktrees, issue)
      wt == worktrees[k]
      b == wt.branch
      here == checkout[issue].exists
  IN
  /\ Tick
  /\ UNCHANGED <<lessons, auxvars>>
  /\ IF k = 0
     THEN Unchanged(Result("complete", issue, "no_subagent"))
     ELSE \E status \in (IF here /\ ~force THEN {"ok", "timeout", "error"}
                         ELSE {"ok"}) :
       IF here /\ ~force /\ (status # "ok" \/ checkout[issue].dirty)
       THEN Unchanged(Result("complete", issue,
                IF status = "ok" THEN "uncommitted" ELSE "status_failed"))
       ELSE \E pushed \in (IF push \/ create_pr THEN RemoteOutcomes
                           ELSE {"ok"}) :
       IF pushed = "timeout"
       THEN Unchanged(Result("complete", issue, "crash"))
       ELSE \E pr \in (IF create_pr THEN RemoteOutcomes ELSE {"ok"}) :
       IF pr = "timeout"
       THEN Unchanged(Result("complete", issue, "crash"))
       ELSE \E gitRemove \in (IF here THEN BOOLEAN ELSE {TRUE}) :
         LET removed == GitWorktreeRemove(checkout, issue, force, gitRemove)
             co == IF removed THEN [checkout EXCEPT ![issue] = NoCheckout]
                   ELSE checkout
         IN
         IF here /\ ~removed /\ ~force
         THEN Unchanged(Result("complete", issue, "remove_failed"))
         ELSE \E gitNote \in (IF b \in branches THEN BOOLEAN ELSE {FALSE}),
                 merged \in (IF keep_branch THEN {"ok"}
                             ELSE {"ok", "error", "timeout"}) :
           LET old == get_branch_note(notes, branches, b)
               data == [old EXCEPT !.status = "completed"]
               rec == ExecutionRecord(issue, wt.role, "complete",
                                      IF force THEN "partial" ELSE "success")
               listed == /\ ~keep_branch /\ merged = "ok"
                         /\ \E c \in branches \ unmerged : NameContains(c, b)
               \* `git push -u` has just set the upstream to the tip
               tracked == (push \/ create_pr) /\ pushed = "ok"
           IN
           \E gitDelete \in (IF listed THEN BOOLEAN ELSE {FALSE}),
              memOk \in BOOLEAN :
           /\ checkout' = co
           /\ notes' = set_branch_note(notes, branches, b, data, gitNote)
           /\ worktrees' = remove_worktree(worktrees, issue)
           /\ executions' = IF memOk THEN record_execution(executions, rec)
                            ELSE executions
           /\ metrics' = IF memOk THEN update_metrics(metrics, rec)
                         ELSE metrics
           /\ recorded' = IF memOk THEN Append(recorded, rec) ELSE recorded
           /\ branches' = IF listed /\ GitBranchDelete(branches, unmerged, co,
                                                       b, tracked, gitDelete)
                          THEN branches \ {b} ELSE branches
           /\ unmerged' = unmerged \cap branches'
           /\ last' = Result("complete", issue,
                             IF merged = "timeout" THEN "crash_after" ELSE "ok")
           /\ UNCHANGED local_issues

\* ----------------------------------------------------------- recover_cmd
Recover(issue) ==
  LET k == get_worktree(worktrees, issue)
      wt == worktrees[k]
  IN
  /\ Tick
  /\ UNCHANGED memvars
  /\ IF k = 0
     THEN Unchanged(Result("recover", issue, "no_subagent"))
     ELSE \E prune \in {"ok", "timeout"} :
       IF prune = "timeout"
       THEN Unchanged(Result("recover", issue, "crash"))
       ELSE IF checkout[issue].exists
       THEN Unchanged(Result("recover", issue, "exists"))
       ELSE \E listed \in {"ok", "error", "timeout"} :
         IF listed = "timeout"
         THEN Unchanged(Result("recover", issue, "crash"))
         ELSE IF listed = "error" \/ wt.branch \notin branches
         THEN Unchanged(Result("recover", issue, "branch_not_found"))
         ELSE \E gitAdd \in {"ok", "error", "timeout"} :
           IF ~GitWorktreeAdd(checkout, issue, gitAdd = "ok")
           THEN Unchanged(Result("recover", issue,
                    IF gitAdd = "timeout" THEN "crash" ELSE "failed"))
           ELSE /\ checkout' = [checkout EXCEPT ![issue] = Fresh(wt.branch)]
                /\ last' = Result("recover", issue, "ok")
                /\ UNCHANGED <<worktrees, local_issues, branches, unmerged,
                               notes, executions>>

\* ------------------------------------------------------------ doctor_cmd
\* Check 3, one pass over the snapshot of state.worktrees taken when the
\* loop starts; acc is [ws, co], gitAdd[i] whether `git worktree add` exits 0
\* A doctor that repairs whether asked to or not
DoctorRepairs_always(fix) ==
  TRUE

\* doctor_cmd: `if fix:` under each finding
DoctorRepairs(fix) ==
  fix

RECURSIVE DoctorLoop(_, _, _, _, _)
DoctorLoop(snapshot, k, acc, fix, gitAdd) ==
  IF k > Len(snapshot) THEN acc
  ELSE LET wt == snapshot[k] IN
    IF acc.co[wt.issue].exists \/ ~DoctorRepairs(fix)
    THEN DoctorLoop(snapshot, k + 1, acc, fix, gitAdd)
    ELSE IF wt.branch \in branches
    THEN DoctorLoop(snapshot, k + 1,
           IF GitWorktreeAdd(acc.co, wt.issue, gitAdd[wt.issue])
           THEN [acc EXCEPT !.co[wt.issue] = Fresh(wt.branch)]
           ELSE acc,
           fix, gitAdd)
    ELSE DoctorLoop(snapshot, k + 1,
           [acc EXCEPT !.ws = remove_worktree(acc.ws, wt.issue)],
           fix, gitAdd)

\* issues_found of check 3: the registered worktrees missing on disk. The
\* command has no check that reads a branch's note.
DoctorFindings(ws, co) ==
  {ws[k].issue : k \in {j \in 1..Len(ws) : ~co[ws[j].issue].exists}}

Doctor(fix) ==
  /\ Tick
  /\ UNCHANGED memvars
  /\ \E gitAdd \in (IF DoctorRepairs(fix) THEN [Issues -> BOOLEAN]
                    ELSE {[i \in Issues |-> TRUE]}) :
       LET r == DoctorLoop(worktrees, 1, [ws |-> worktrees, co |-> checkout],
                           fix, gitAdd)
       IN /\ worktrees' = r.ws
          /\ checkout' = r.co
          /\ last' = Result("doctor", 0,
                            IF DoctorFindings(worktrees, checkout) = {}
                            THEN "ok" ELSE "issues_found")
          /\ UNCHANGED <<local_issues, branches, unmerged, notes, executions>>

\* ------------------------------------------------------------ status_cmd
\* status_cmd: reads the registry entry, the note, the last commit, whether
\* the checkout exists and `git status --porcelain`; prints them
Status(issue) ==
  LET k == get_worktree(worktrees, issue) IN
  /\ Tick
  /\ UNCHANGED memvars
  /\ Unchanged(Result("status", issue,
                      IF k = 0 THEN "no_subagent"
                      ELSE IF checkout[issue].exists THEN "reported"
                      ELSE "reported_missing"))

\* ------------------------------------------------- outside the CLI
\* The agent edits files in its checkout
AgentEdit(issue) ==
  /\ checkout[issue].exists /\ ~checkout[issue].dirty
  /\ checkout' = [checkout EXCEPT ![issue].dirty = TRUE]
  /\ last' = Result("external", issue, "ok")
  /\ UNCHANGED <<worktrees, local_issues, branches, unmerged, notes,
                 executions>>
  /\ Outside

\* The agent commits its edits on the checkout's branch
AgentCommit(issue) ==
  /\ checkout[issue].exists /\ checkout[issue].dirty
  /\ checkout' = [checkout EXCEPT ![issue].dirty = FALSE]
  /\ unmerged' = unmerged \cup {checkout[issue].branch}
  /\ last' = Result("external", issue, "ok")
  /\ UNCHANGED <<worktrees, local_issues, branches, notes, executions>>
  /\ Outside

\* Drift: the worktree is removed behind the tool's back (`git worktree
\* remove`, or its directory deleted and pruned)
DriftRemoveCheckout(issue) ==
  /\ checkout[issue].exists
  /\ checkout' = [checkout EXCEPT ![issue] = NoCheckout]
  /\ last' = Result("external", issue, "ok")
  /\ UNCHANGED <<worktrees, local_issues, branches, unmerged, notes,
                 executions>>
  /\ Outside

\* Drift: a branch no checkout holds is deleted with `git branch -D`
DriftDeleteBranch(b) ==
  /\ b \in branches /\ ~CheckedOut(checkout, b)
  /\ branches' = branches \ {b}
  /\ unmerged' = unmerged \ {b}
  /\ last' = Result("external", b.issue, "ok")
  /\ UNCHANGED <<worktrees, local_issues, checkout, notes, executions>>
  /\ Outside

\* ------------------------------------------------------ specifications
Operations ==
  \/ \E i \in Issues, r \in Roles, t \in TitleHints : Spawn(i, r, t)
  \/ \E t \in TitleHints, r \in Roles : Start(t, r)
  \/ \E i \in Issues, to \in Roles \cup {NoRole}, skip \in BOOLEAN :
       \E env \in (IF skip THEN {DodSkipped} ELSE DodEnvs) :
         Handoff(i, to, skip, env)
  \/ \E i \in Issues, force, keep, pr \in BOOLEAN :
       \E push \in (IF pr THEN {TRUE} ELSE BOOLEAN) :
         Complete(i, force, keep, push, pr)
  \/ \E i \in Issues : Recover(i)
  \/ \E fix \in BOOLEAN : Doctor(fix)

Agent ==
  \/ \E i \in Issues : AgentEdit(i)
  \/ \E i \in Issues : AgentCommit(i)

Drift ==
  \/ \E i \in Issues : DriftRemoveCheckout(i)
  \/ \E b \in AllBranches : DriftDeleteBranch(b)

\* ------------------------------------------- orchestrator.py run_workflow
NoType == "none"

\* orchestrator.py WORKFLOW_STEPS
WORKFLOW_STEPS ==
  [t \in {"full_epic", "feature", "story", "bug_fix", "spike"} |->
     CASE t = "full_epic" -> <<"pm", "ux", "architect", "engineer", "reviewer">>
       [] t = "feature" -> <<"architect", "engineer", "reviewer">>
       [] t = "story" -> <<"engineer", "reviewer">>
       [] t = "bug_fix" -> <<"engineer", "reviewer">>
       [] t = "spike" -> <<"architect">>]

\* orchestrator.py ISSUE_TYPE_MAP
ISSUE_TYPE_MAP ==
  [t \in {"epic", "feature", "story", "bug", "spike"} |->
     CASE t = "epic" -> "full_epic"
       [] t = "feature" -> "feature"
       [] t = "story" -> "story"
       [] t = "bug" -> "bug_fix"
       [] t = "spike" -> "spike"]

\* str.lower on the words the inputs are drawn from
Lower(w) ==
  CASE w = "Epic" -> "epic"
    [] w = "Feature" -> "feature"
    [] w = "BUG" -> "bug"
    [] OTHER -> w

\* A label is its text after an optional "type:" prefix, and whether it has one
Label(typed, name) == [typed |-> typed, name |-> name]

\* determine_workflow: lbl.lower().replace("type:", "")
StripLabel(lbl) == Lower(lbl.name)

IssueTypes == {"story", "Epic", "bug", "task"}

LabelLists ==
  { <<>>,
    <<Label(TRUE, "Epic")>>,
    <<Label(FALSE, "spike")>>,
    <<Label(FALSE, "urgent"), Label(TRUE, "feature")>> }

RECURSIVE FirstTypeLabel(_, _)
FirstTypeLabel(labels, k) ==
  IF k > Len(labels) THEN NoType
  ELSE IF StripLabel(labels[k]) \in DOMAIN ISSUE_TYPE_MAP
  THEN ISSUE_TYPE_MAP[StripLabel(labels[k])]
  ELSE FirstTypeLabel(labels, k + 1)

\* WorkflowOrchestrator.determine_workflow
determine_workflow(issue_type, labels) ==
  IF FirstTypeLabel(labels, 1) # NoType THEN FirstTypeLabel(labels, 1)
  ELSE IF Lower(issue_type) \in DOMAIN ISSUE_TYPE_MAP
  THEN ISSUE_TYPE_MAP[Lower(issue_type)]
  ELSE "story"

\* run_workflow: WORKFLOW_STEPS.get(wf_type, WORKFLOW_STEPS[STORY])
StepsOf(wf_type) ==
  IF wf_type \in DOMAIN WORKFLOW_STEPS THEN WORKFLOW_STEPS[wf_type]
  ELSE WORKFLOW_STEPS["story"]

\* What run_workflow finds when it imports and drives agent_framework:
\* no package, a WorkflowBuilder without the methods called, or a working one
Sdks == {"absent", "mismatch", "present"}

\* An agent invocation returns, or raises an exception of one of these classes
AgentOutcomes == {"ok", "RuntimeError", "TypeError"}

\* run_workflow: except (ImportError, AttributeError, TypeError)
FallbackErrors == {"ImportError", "AttributeError", "TypeError"}

NoError == [step |-> NoRole, msg |-> "none"]

NoArgs ==
  [issue_type |-> "none", labels |-> <<>>, role |-> NoRole,
   workflow_type |-> NoType, sdk |-> "absent", mw |-> FALSE]

NoResult ==
  [returned |-> FALSE, success |-> FALSE, outputs |-> {},
   final_output |-> "", steps_completed |-> <<>>, step_results |-> <<>>,
   error |-> NoError, workflow_type |-> NoType]

WorkflowResult(success, outputs, final, completed, results, error, wf_type) ==
  [returned |-> TRUE, success |-> success, outputs |-> outputs,
   final_output |-> final, steps_completed |-> completed,
   step_results |-> results, error |-> error, workflow_type |-> wf_type]

StepResult(role, success) == [role |-> role, success |-> success]

\* _run_sequential: current_input = prompt, what the first agent is given
CallerPrompt == [previous |-> NoRole, text |-> "prompt"]

\* Every agent handed the caller's prompt
current_input_prompt(role, output) == CallerPrompt

\* _run_sequential: "Previous agent (<role>) output: <output> Continue
\* working on issue #<issue>.", what the agent after role is given
current_input(role, output) == [previous |-> role, text |-> output]

\* stored: whether the memory layer took the writes made around the call
Invocation(role, input, via, outcome, stored) ==
  [role |-> role, input |-> input, via |-> via, outcome |-> outcome,
   stored |-> stored]

\* _record_execution: the record reaches the store unless the memory layer
\* raises, which is logged and swallowed
RecordExecution(recs, role, action, outcome, recOk) ==
  IF recOk THEN Append(recs, [role |-> role, action |-> action,
                              outcome |-> outcome])
  ELSE recs

\* run.py: effective_role = role or "engineer", the role the middleware
\* stack of every agent of the run is built with
EffectiveRole(args) == IF args.role # NoRole THEN args.role ELSE "engineer"

\* MemoryRecordingMiddleware.process: when the agents carry the middleware
\* stack (mw), each agent run is recorded, under the stack's role
MiddlewareRecord(recs, args, outcome, recOk) ==
  IF args.mw
  THEN RecordExecution(recs, EffectiveRole(args), "agent_invocation",
                       IF outcome = "ok" THEN "success" ELSE "failure", recOk)
  ELSE recs

\* The workflow type run_workflow settles on
ResolvedType(args) ==
  IF args.workflow_type # NoType THEN args.workflow_type
  ELSE determine_workflow(args.issue_type, args.labels)

\* run_workflow up to its first agent invocation
RunWorkflow(issue_type, labels, role, workflow_type, sdk, mw) ==
  LET args == [issue_type |-> issue_type, labels |-> labels, role |-> role,
               workflow_type |-> workflow_type, sdk |-> sdk, mw |-> mw]
  IN
  /\ wf_pc = "idle"
  /\ wf_args' = args
  /\ wf_idx' = 1
  /\ IF role # NoRole /\ workflow_type = NoType
     THEN wf_steps' = <<role>> /\ wf_pc' = "single"
     ELSE /\ wf_steps' = StepsOf(ResolvedType(args))
          /\ wf_pc' = IF sdk = "present" THEN "graph" ELSE "seq"
  /\ UNCHANGED <<wf_input, wf_invoked, wf_outputs, wf_completed, wf_results,
                 wf_records, wf_result>>
  /\ UNCHANGED envvars

\* run_single_agent: the invocation and what follows it
SingleInvoke(outcome, recOk) ==
  LET role == wf_steps[1]
      recs == MiddlewareRecord(wf_records, wf_args, outcome, recOk)
  IN
  /\ wf_pc = "single"
  /\ wf_invoked' = Append(wf_invoked, Invocation(role, wf_input, "single", outcome,
                                          recOk))
  /\ wf_pc' = "done"
  /\ IF outcome = "ok"
     THEN /\ wf_records' = RecordExecution(recs, role,
                              "single_agent_run", "success", recOk)
          /\ wf_result' = WorkflowResult(TRUE, {role}, role, <<role>>,
                              <<StepResult(role, TRUE)>>, NoError,
                              "single_agent")
     ELSE /\ wf_records' = RecordExecution(recs, role,
                              "single_agent_run", "failure", recOk)
          /\ wf_result' = WorkflowResult(FALSE, {}, "", <<>>,
                              <<StepResult(role, FALSE)>>,
                              [step |-> NoRole, msg |-> outcome],
                              "single_agent")
  /\ UNCHANGED <<wf_args, wf_steps, wf_idx, wf_input, wf_outputs,
                 wf_completed, wf_results>>
  /\ UNCHANGED envvars

\* _run_graph_workflow: workflow.run drives the agents along the edges; one
\* invocation. An exception leaves _run_graph_workflow as raised; run_workflow
\* catches FallbackErrors and starts _run_sequential, anything else leaves
\* run_workflow too. Nothing here calls _record_execution.
GraphInvoke(outcome, recOk) ==
  LET role == wf_steps[wf_idx] IN
  /\ wf_pc = "graph"
  /\ wf_invoked' = Append(wf_invoked, Invocation(role, wf_input, "graph",
                                                outcome, recOk))
  /\ wf_records' = MiddlewareRecord(wf_records, wf_args, outcome, recOk)
  /\ IF outcome = "ok"
     THEN IF wf_idx = Len(wf_steps)
          THEN /\ wf_pc' = "done"
               /\ wf_result' = WorkflowResult(TRUE, {role}, role, wf_steps,
                                   <<>>, NoError, ResolvedType(wf_args))
               /\ UNCHANGED <<wf_idx, wf_input>>
          ELSE /\ wf_idx' = wf_idx + 1
               /\ wf_input' = [previous |-> role, text |-> role]
               /\ UNCHANGED <<wf_pc, wf_result>>
     ELSE IF outcome \in FallbackErrors
     THEN /\ wf_pc' = "seq"
          /\ wf_idx' = 1
          /\ wf_input' = CallerPrompt
          /\ UNCHANGED wf_result
     ELSE /\ wf_pc' = "raised"
          /\ UNCHANGED <<wf_idx, wf_input, wf_result>>
  /\ UNCHANGED <<wf_args, wf_steps, wf_outputs, wf_completed, wf_results>>
  /\ UNCHANGED envvars

\* _run_sequential: one turn of its loop, and the return after the last one
SeqInvoke(outcome, recOk) ==
  LET role == wf_steps[wf_idx]
      outputs == wf_outputs \cup {role}
      completed == Append(wf_completed, role)
      wf_type == ResolvedType(wf_args)
      recs == MiddlewareRecord(wf_records, wf_args, outcome, recOk)
  IN
  /\ wf_pc = "seq"
  /\ wf_invoked' = Append(wf_invoked, Invocation(role, wf_input, "seq",
                                                outcome, recOk))
  /\ IF outcome = "ok"
     THEN /\ wf_outputs' = outputs
          /\ wf_completed' = completed
          /\ wf_results' = Append(wf_results, StepResult(role, TRUE))
          /\ wf_records' = RecordExecution(recs, role,
                              <<"workflow_step", role>>, "success", recOk)
          /\ wf_input' = current_input(role, role)
          /\ IF wf_idx = Len(wf_steps)
             THEN /\ wf_pc' = "done"
                  /\ wf_result' = WorkflowResult(TRUE, outputs,
                        IF wf_steps[Len(wf_steps)] \in outputs
                        THEN wf_steps[Len(wf_steps)] ELSE "",
                        completed, Append(wf_results, StepResult(role, TRUE)),
                        NoError, wf_type)
                  /\ UNCHANGED wf_idx
             ELSE /\ wf_idx' = wf_idx + 1
                  /\ UNCHANGED <<wf_pc, wf_result>>
     ELSE /\ wf_results' = Append(wf_results, StepResult(role, FALSE))
          /\ wf_records' = RecordExecution(recs, role,
                              <<"workflow_step", role>>, "failure", recOk)
          /\ wf_pc' = "done"
          /\ wf_result' = WorkflowResult(FALSE, wf_outputs,
                IF wf_completed = <<>> THEN ""
                ELSE wf_completed[Len(wf_completed)],
                wf_completed, Append(wf_results, StepResult(role, FALSE)),
                [step |-> role, msg |-> outcome], wf_type)
          /\ UNCHANGED <<wf_idx, wf_input, wf_outputs, wf_completed>>
  /\ UNCHANGED <<wf_args, wf_steps>>
  /\ UNCHANGED envvars

WfIdle ==
  /\ wf_pc = "idle"
  /\ wf_args = NoArgs
  /\ wf_steps = <<>>
  /\ wf_idx = 0
  /\ wf_input = CallerPrompt
  /\ wf_invoked = <<>>
  /\ wf_outputs = {}
  /\ wf_completed = <<>>
  /\ wf_results = <<>>
  /\ wf_records = <<>>
  /\ wf_result = NoResult

Init == InitEnv /\ budget = MaxOps /\ WfIdle

Next == Operations \/ Agent \/ Drift

Spec == Init /\ [][Next]_vars

\* The CLI operations and the agent's work, with no drift behind the tool
NextOps == Operations \/ Agent

SpecOps == Init /\ [][NextOps]_vars

\* One environment handed on and then examined by doctor
InitDesync == InitEnv /\ budget = MaxBranchOps /\ WfIdle

NextDesync ==
  \/ \E r \in Roles, t \in TitleHints : Spawn(1, r, t)
  \/ \E to \in Roles \cup {NoRole} : Handoff(1, to, TRUE, DodSkipped)
  \/ \E fix \in BOOLEAN : Doctor(fix)

SpecDesync == InitDesync /\ [][NextDesync]_vars

\* One environment's walk through the roles: spawn, default handoffs, complete
InitChain == InitEnv /\ budget = MaxChainOps /\ WfIdle

NextChain ==
  \/ \E r \in Roles, t \in TitleHints : Spawn(1, r, t)
  \/ \E skip \in BOOLEAN : \E env \in (IF skip THEN {DodSkipped} ELSE DodEnvs) :
       Handoff(1, NoRole, skip, env)
  \/ \E force, keep \in BOOLEAN : Complete(1, force, keep, FALSE, FALSE)
  \/ AgentEdit(1)
  \/ AgentCommit(1)

SpecChain == InitChain /\ [][NextChain]_vars

\* One issue spawned and completed under two titles, committed to by its
\* agent in between
InitBranch == InitEnv /\ budget = MaxBranchOps /\ WfIdle

NextBranch ==
  \/ \E t \in BranchTitles : Spawn(1, "engineer", t)
  \/ \E keep, push \in BOOLEAN : Complete(1, FALSE, keep, push, FALSE)
  \/ AgentEdit(1)
  \/ AgentCommit(1)

SpecBranch == InitBranch /\ [][NextBranch]_vars

\* ------------------------------------------------------ Memory (memory.py)
\* Effectiveness is a float in the source; here it is the exact value
\* times Scale, a power of ten large enough that MaxMemOps updates of a
\* start value divide without remainder.
Scale == 10 ^ (MaxMemOps + 1)

Outcomes3 == {"success", "failure", "partial"}
LessonIds == 1..MaxLessonId
Categories == {"testing", "api"}
LessonTexts == {"a", "b"}
StartEffectiveness == {Scale, Scale \div 10}

\* LessonLearned: applied_count defaults to 0; the lessons added one by
\* one all come from a story worked on by the engineer
LessonLearned(id, category, lesson, effectiveness) ==
  [id |-> id, category |-> category, lesson |-> lesson, applied_count |-> 0,
   effectiveness |-> effectiveness, issue_type |-> "story",
   role |-> "engineer"]

\* add_lesson: the first stored lesson with the category and text, or 0
RECURSIVE FirstSimilar(_, _, _)
FirstSimilar(ls, lesson, k) ==
  IF k > Len(ls) THEN 0
  ELSE IF ls[k].category = lesson.category /\ ls[k].lesson = lesson.lesson
  THEN k
  ELSE FirstSimilar(ls, lesson, k + 1)

\* add_lesson: the key of the pruning sort
PruneKey(l) == l.effectiveness * l.applied_count

\* list.sort(key=..., reverse=True): descending, equal keys keep their order
RECURSIVE InsertByKey(_, _)
InsertByKey(sorted, x) ==
  IF sorted = <<>> THEN <<x>>
  ELSE IF PruneKey(Head(sorted)) >= PruneKey(x)
  THEN <<Head(sorted)>> \o InsertByKey(Tail(sorted), x)
  ELSE <<x>> \o sorted

RECURSIVE SortByKey(_)
SortByKey(ls) ==
  IF ls = <<>> THEN <<>>
  ELSE InsertByKey(SortByKey(SubSeq(ls, 1, Len(ls) - 1)), ls[Len(ls)])

\* add_lesson pruning by age instead of by key: lessons[-MAX_LESSONS:]
add_lesson_newest(ls, lesson) ==
  LET k == FirstSimilar(ls, lesson, 1)
      all == Append(ls, lesson)
  IN
  IF k # 0 THEN [ls EXCEPT ![k].applied_count = @ + 1]
  ELSE IF Len(all) > MAX_LESSONS
  THEN SubSeq(all, Len(all) - MAX_LESSONS + 1, Len(all))
  ELSE all

\* add_lesson without the search for a similar lesson
add_lesson_append(ls, lesson) ==
  LET all == Append(ls, lesson) IN
  IF Len(all) > MAX_LESSONS THEN SubSeq(SortByKey(all), 1, MAX_LESSONS)
  ELSE all

\* add_lesson putting the new lesson in the place of the similar one
add_lesson_replace(ls, lesson) ==
  LET k == FirstSimilar(ls, lesson, 1)
      all == Append(ls, lesson)
  IN
  IF k # 0
  THEN [ls EXCEPT ![k] = [lesson EXCEPT !.applied_count =
                                           ls[k].applied_count + 1]]
  ELSE IF Len(all) > MAX_LESSONS THEN SubSeq(SortByKey(all), 1, MAX_LESSONS)
  ELSE all

\* Memory.add_lesson
add_lesson(ls, lesson) ==
  LET k == FirstSimilar(ls, lesson, 1)
      all == Append(ls, lesson)
  IN
  IF k # 0 THEN [ls EXCEPT ![k].applied_count = @ + 1]
  ELSE IF Len(all) > MAX_LESSONS THEN SubSeq(SortByKey(all), 1, MAX_LESSONS)
  ELSE all

\* update_lesson_effectiveness: the first stored lesson with the id, or 0
RECURSIVE FirstWithId(_, _, _)
FirstWithId(ls, id, k) ==
  IF k > Len(ls) THEN 0
  ELSE IF ls[k].id = id THEN k
  ELSE FirstWithId(ls, id, k + 1)

\* min(1.0, current + (1.0 - current) * 0.1)
increase(current) ==
  LET raised == current + (Scale - current) \div 10 IN
  IF raised > Scale THEN Scale ELSE raised

\* The decay without its floor: current * 0.9
decrease_unbounded(current) == (current * 9) \div 10

\* max(0.1, current * 0.9)
decrease(current) ==
  LET lowered == (current * 9) \div 10 IN
  IF lowered < Scale \div 10 THEN Scale \div 10 ELSE lowered

\* Memory.update_lesson_effectiveness
update_lesson_effectiveness(ls, id, outcome) ==
  LET k == FirstWithId(ls, id, 1) IN
  IF k = 0 THEN ls
  ELSE [ls EXCEPT ![k].applied_count = @ + 1,
                  ![k].effectiveness =
                     IF outcome = "success" THEN increase(@)
                     ELSE IF outcome = "failure" THEN decrease(@)
                     ELSE @]

\* One call of Memory.add_lesson
AddLesson(id, category, lesson, effectiveness) ==
  LET l == LessonLearned(id, category, lesson, effectiveness) IN
  /\ Tick
  /\ lessons' = add_lesson(lessons, l)
  /\ last' = Result("add_lesson", id,
                    IF FirstSimilar(lessons, l, 1) # 0 THEN "similar"
                    ELSE IF Len(lessons) + 1 > MAX_LESSONS THEN "pruned"
                    ELSE "new")
  /\ UNCHANGED <<worktrees, local_issues, branches, unmerged, checkout,
                 notes, executions, metrics, recorded, auxvars>>

\* One call of Memory.update_lesson_effectiveness
UpdateLessonEffectiveness(id, outcome) ==
  /\ Tick
  /\ lessons' = update_lesson_effectiveness(lessons, id, outcome)
  /\ last' = Result("update_lesson_effectiveness", id, outcome)
  /\ UNCHANGED <<worktrees, local_issues, branches, unmerged, checkout,
                 notes, executions, metrics, recorded, auxvars>>

\* One call of Memory.record_execution
MemoryRecordExecution(issue, role, outcome) ==
  LET rec == ExecutionRecord(issue, role, "run", outcome) IN
  /\ Tick
  /\ executions' = record_execution(executions, rec)
  /\ metrics' = update_metrics(metrics, rec)
  /\ recorded' = Append(recorded, rec)
  /\ last' = Result("record_execution", issue, outcome)
  /\ UNCHANGED <<worktrees, local_issues, branches, unmerged, checkout,
                 notes, lessons, auxvars>>

\* get_lessons_for_context: the arguments; "none" is an argument left out
Query(issue_type, role, categories) ==
  [issue_type |-> issue_type, role |-> role, categories |-> categories]

\* get_lessons_for_context: four times the score of a lesson, the boosts
\* 1.5, 1.5 and 2.0 taken as 3/2, 3/2 and 2
Score(l, q) ==
  l.effectiveness * (l.applied_count + 1)
    * (IF q.issue_type # NoType /\ l.issue_type = q.issue_type
       THEN 3 ELSE 2)
    * (IF q.role # NoRole /\ l.role = q.role THEN 3 ELSE 2)
    * (IF l.category \in q.categories THEN 2 ELSE 1)

\* A sort that puts a lesson ahead of the earlier lessons of its score
RankInsert_reversing(sorted, x, q) ==
  IF sorted = <<>> THEN <<x>>
  ELSE IF Score(sorted[Len(sorted)], q) > Score(x, q) THEN Append(sorted, x)
  ELSE <<x>> \o sorted

\* filtered.sort(key=score, reverse=True): descending, equal scores keep
\* their order
RECURSIVE RankInsert(_, _, _)
RankInsert(sorted, x, q) ==
  IF sorted = <<>> THEN <<x>>
  ELSE IF Score(Head(sorted), q) >= Score(x, q)
  THEN <<Head(sorted)>> \o RankInsert(Tail(sorted), x, q)
  ELSE <<x>> \o sorted

RECURSIVE RankSort(_, _)
RankSort(ls, q) ==
  IF ls = <<>> THEN <<>>
  ELSE RankInsert(RankSort(SubSeq(ls, 1, Len(ls) - 1), q), ls[Len(ls)], q)

\* Memory.get_lessons_for_context
get_lessons_for_context(ls, q, limit) ==
  LET all == RankSort(ls, q) IN
  SubSeq(all, 1, IF limit < Len(all) THEN limit ELSE Len(all))

\* One call of Memory.get_lessons_for_context
GetLessonsForContext(issue_type, role, categories, limit) ==
  LET q == Query(issue_type, role, categories) IN
  /\ Tick
  /\ ranked' = [asked |-> TRUE, query |-> q, limit |-> limit,
                result |-> get_lessons_for_context(lessons, q, limit)]
  /\ last' = Result("get_lessons_for_context", 0, "ok")
  /\ UNCHANGED <<worktrees, local_issues, branches, unmerged, checkout,
                 notes, executions, lessons, metrics, recorded, sessions,
                 saved, file, saving, loaded, rq, bn, rt, keyring,
                 statedoc>>

\* The lessons a store to be ranked may hold; LessonAt gives the k-th its id
LessonShapes ==
  [category : Categories, applied_count : 0..1,
   effectiveness : StartEffectiveness, issue_type : {"bug", "story"},
   role : {"engineer", "pm"}]

LessonAt(shape, k) ==
  [id |-> k, category |-> shape.category, lesson |-> "a",
   applied_count |-> shape.applied_count,
   effectiveness |-> shape.effectiveness, issue_type |-> shape.issue_type,
   role |-> shape.role]

InitRank ==
  /\ InitRest /\ NoFiles /\ budget = MaxOps /\ WfIdle
  /\ \E n \in 0..MaxRankLessons : \E shapes \in [1..n -> LessonShapes] :
       lessons = [k \in 1..n |-> LessonAt(shapes[k], k)]

NextRank ==
  \E it \in {NoType, "bug"}, r \in {NoRole, "engineer"},
     cs \in {{}, {"testing"}}, limit \in 0..MaxLimit :
    GetLessonsForContext(it, r, cs, limit)

SpecRank == InitRank /\ [][NextRank]_vars

SessionIds == {"s1", "s2"}

\* SessionContext
SessionContext(issue, session_id) == [issue |-> issue, session_id |-> session_id]

\* A window cut at the wrong end: sessions[issue][:MAX_SESSIONS_PER_ISSUE]
save_session_oldest(ss, session) ==
  LET all == Append(ss[session.issue], session) IN
  [ss EXCEPT ![session.issue] =
     IF Len(all) > MAX_SESSIONS_PER_ISSUE
     THEN SubSeq(all, 1, MAX_SESSIONS_PER_ISSUE) ELSE all]

\* Memory.save_session: append under the issue's key, keep the last
\* MAX_SESSIONS_PER_ISSUE
save_session(ss, session) ==
  LET all == Append(ss[session.issue], session) IN
  [ss EXCEPT ![session.issue] =
     IF Len(all) > MAX_SESSIONS_PER_ISSUE
     THEN SubSeq(all, Len(all) - MAX_SESSIONS_PER_ISSUE + 1, Len(all))
     ELSE all]

\* Memory.get_session_history: issue_sessions[-limit:]
get_session_history(ss, issue, limit) ==
  LET all == ss[issue] IN
  IF limit = 0 \/ limit > Len(all) THEN all
  ELSE SubSeq(all, Len(all) - limit + 1, Len(all))

\* Memory.get_latest_session: <<>> stands for None
get_latest_session(ss, issue) ==
  LET history == get_session_history(ss, issue, 1) IN
  IF history = <<>> THEN <<>> ELSE history[1]

\* One call of Memory.save_session
SaveSession(issue, session_id) ==
  LET session == SessionContext(issue, session_id) IN
  /\ Tick
  /\ sessions' = save_session(sessions, session)
  /\ saved' = [saved EXCEPT ![issue] = Append(@, session)]
  /\ last' = Result("save_session", issue, session_id)
  /\ UNCHANGED <<worktrees, local_issues, branches, unmerged, checkout,
                 notes, executions, lessons, metrics, recorded, ranked,
                 file, saving, loaded, rq, bn, rt, keyring, statedoc>>

NextSess == \E i \in Issues, sid \in SessionIds : SaveSession(i, sid)

\* State._load / Memory._load: what the constructor is left with
\*   default   the default document
\*   document  the document read
\*   raised    an exception leaves the constructor
\*   unusable  a JSON value that is no object, on which the accessors raise
load(kind) ==
  CASE kind = "absent" -> "default"          \* exists() is False
    [] kind = "unreadable" -> "default"      \* IOError, caught
    [] kind = "not_json" -> "default"        \* JSONDecodeError, caught
    [] kind = "truncated" -> "default"       \* JSONDecodeError, caught
    [] kind = "not_utf8" -> "raised"         \* UnicodeDecodeError, not caught
    [] kind = "not_object" -> "unusable"     \* json.load returns it as it is
    [] kind = "document" -> "document"

\* One construction of State or Memory
Load(st) ==
  /\ Tick
  /\ loaded' = [store |-> st, observed |-> file[st], outcome |-> load(file[st])]
  /\ last' = Result("load", 0, st)
  /\ UNCHANGED <<worktrees, local_issues, branches, unmerged, checkout,
                 notes, executions, lessons, metrics, recorded, ranked,
                 sessions, saved, file, saving, rq, bn, rt, keyring,
                 statedoc>>

\* save, first half: open(file, "w") empties the file
SaveOpen(st) ==
  /\ Tick
  /\ ~saving[st]
  /\ file[st] # "unreadable"
  /\ saving' = [saving EXCEPT ![st] = TRUE]
  /\ file' = [file EXCEPT ![st] = "truncated"]
  /\ last' = Result("save", 0, st)
  /\ UNCHANGED <<worktrees, local_issues, branches, unmerged, checkout,
                 notes, executions, lessons, metrics, recorded, ranked,
                 sessions, saved, loaded, rq, bn, rt, keyring, statedoc>>

\* save, second half: json.dump has written the document, the file is closed
SaveClose(st) ==
  /\ saving[st]
  /\ saving' = [saving EXCEPT ![st] = FALSE]
  /\ file' = [file EXCEPT ![st] = "document"]
  /\ last' = Result("saved", 0, st)
  /\ UNCHANGED <<worktrees, local_issues, branches, unmerged, checkout,
                 notes, executions, lessons, metrics, recorded, ranked,
                 sessions, saved, loaded, rq, bn, rt, keyring, statedoc>>
  /\ UNCHANGED <<nops, budget, wfvars>>

\* The files found on disk: anything but a file being written
InitFiles ==
  /\ InitRest /\ lessons = <<>> /\ budget = MaxOps /\ WfIdle
  /\ file \in [Stores -> FileKinds \ {"truncated"}]
  /\ saving = [st \in Stores |-> FALSE]
  /\ loaded = NoLoad

NextFiles ==
  \/ \E st \in Stores : Load(st)
  \/ \E st \in Stores : SaveOpen(st)
  \/ \E st \in Stores : SaveClose(st)

SpecFiles == InitFiles /\ [][NextFiles]_vars

\* ------------------------------------------- spawn_cmd: the branch name
\* Strings are sequences of characters. A title hint is made of a lower-case
\* letter, an upper-case letter, a dash and a character outside [a-zA-Z0-9-].
TitleChars == {"a", "B", "-", "!"}

TitleStrings == UNION {[1..n -> TitleChars] : n \in 0..MaxTitleLen}

\* Issue numbers of one, two and six digits
BranchIssueIds == {7, 42, 123456}

DigitChars == <<"0", "1", "2", "3", "4", "5", "6", "7", "8", "9">>

\* str(n) of a natural number
RECURSIVE Str(_)
Str(n) ==
  IF n < 10 THEN <<DigitChars[n + 1]>>
  ELSE Append(Str(n \div 10), DigitChars[(n % 10) + 1])

\* str.lower on the characters of a title
LowerChar(c) == IF c = "B" THEN "b" ELSE c

\* The characters of [a-zA-Z0-9-] that occur
KeptChars ==
  {"a", "b", "B", "t", "s", "k", "-"} \cup {DigitChars[k] : k \in 1..10}

\* re.sub(r'[^a-zA-Z0-9-]', '-', s.lower())
Sanitize(str) ==
  [k \in 1..Len(str) |->
     IF LowerChar(str[k]) \in KeptChars THEN LowerChar(str[k]) ELSE "-"]

\* A slice that keeps the whole string
Slice_whole(str, n) ==
  str

\* str[:n], for negative n as well
Slice(str, n) ==
  IF n >= 0
  THEN SubSeq(str, 1, IF n < Len(str) THEN n ELSE Len(str))
  ELSE SubSeq(str, 1, IF Len(str) + n > 0 THEN Len(str) + n ELSE 0)

\* str.rstrip("-")
RECURSIVE RStrip(_)
RStrip(str) ==
  IF Len(str) > 0 /\ str[Len(str)] = "-"
  THEN RStrip(SubSeq(str, 1, Len(str) - 1))
  ELSE str

\* prefix = f"issue-{issue}-"
BranchPrefix(issue) == <<"i", "s", "s", "u", "e", "-">> \o Str(issue) \o <<"-">>

\* spawn_cmd: branch_name from the issue number and the --title option
\* (an empty title counts as none)
branch_name(issue, title) ==
  LET hint == IF title = <<>>
              THEN <<"t", "a", "s", "k", "-">> \o Str(issue) ELSE title
      clean == Sanitize(hint)
      prefix == BranchPrefix(issue)
      max_suffix == max_branch_length - Len(prefix)
  IN prefix \o RStrip(Slice(clean, max_suffix))

\* spawn_cmd derives the branch name; a behaviour follows one command line
DeriveBranchName(issue, title) ==
  /\ Tick
  /\ bn = NoName
  /\ bn' = [issue |-> issue, title |-> title,
            name |-> branch_name(issue, title), again |-> <<>>]
  /\ last' = Result("branch_name", 0, "first")
  /\ UNCHANGED <<worktrees, local_issues, branches, unmerged, checkout,
                 notes, executions, lessons, metrics, recorded, ranked,
                 sessions, saved, file, saving, loaded, rq, rt, keyring,
                 statedoc>>

\* the same command line is run once more
DeriveBranchNameAgain ==
  /\ Tick
  /\ bn.issue # 0
  /\ bn' = [bn EXCEPT !.again = branch_name(bn.issue, bn.title)]
  /\ last' = Result("branch_name", 0, "again")
  /\ UNCHANGED <<worktrees, local_issues, branches, unmerged, checkout,
                 notes, executions, lessons, metrics, recorded, ranked,
                 sessions, saved, file, saving, loaded, rq, rt, keyring,
                 statedoc>>

NextName ==
  \/ \E i \in BranchIssueIds, t \in TitleStrings : DeriveBranchName(i, t)
  \/ DeriveBranchNameAgain

InitName == InitEnv /\ budget = MaxOps /\ WfIdle

SpecName == InitName /\ [][NextName]_vars

\* ------------------------------------------- _github_request_with_retry
MAX_RETRIES == 3

\* What one urlopen + json.loads can come to: a response with a JSON body,
\* a 2xx response whose body is not JSON, an HTTPError with its code, a
\* URLError, an OSError (a socket timeout)
Responses ==
  {"200", "200_not_json", "401", "404", "500", "503", "URLError", "OSError"}

ClientError(o) == o \in {"401", "404"}

\* Retriable_any: every failure is retried
Retriable_any(o) ==
  o # "200"

\* The except clauses that end in continue: HTTPError with code >= 500,
\* URLError, OSError
Retriable(o) ==
  o \in {"500", "503", "URLError", "OSError"}

\* A caller enters the function
RequestBegin ==
  /\ Tick
  /\ rq.pc # "loop"
  /\ rq' = [NoRequest EXCEPT !.pc = "loop"]
  /\ last' = Result("request", 0, "begin")
  /\ UNCHANGED <<worktrees, local_issues, branches, unmerged, checkout,
                 notes, executions, lessons, metrics, recorded, ranked,
                 sessions, saved, file, saving, loaded, bn, rt, keyring,
                 statedoc>>

\* One iteration of for attempt in range(MAX_RETRIES)
RequestAttempt(o) ==
  /\ rq.pc = "loop"
  /\ rq.attempt < MAX_RETRIES
  /\ LET made == [rq EXCEPT !.attempt = @ + 1, !.seen = Append(@, o)]
     IN rq' = IF o = "200"
                THEN [made EXCEPT !.pc = "returned", !.result = o]
              ELSE IF Retriable(o)
                THEN [made EXCEPT !.last_error = o]
              ELSE [made EXCEPT !.pc = "raised", !.result = o]
  /\ last' = Result("request", rq.attempt + 1, o)
  /\ UNCHANGED <<worktrees, local_issues, branches, unmerged, checkout,
                 notes, executions, lessons, metrics, recorded, ranked,
                 sessions, saved, file, saving, loaded, bn, rt, keyring,
                 statedoc>>
  /\ UNCHANGED <<nops, budget, wfvars>>

\* The loop is over: raise last_error
RequestExhausted ==
  /\ rq.pc = "loop"
  /\ rq.attempt >= MAX_RETRIES
  /\ rq' = [rq EXCEPT !.pc = "raised", !.result = rq.last_error]
  /\ last' = Result("request", rq.attempt, "raised")
  /\ UNCHANGED <<worktrees, local_issues, branches, unmerged, checkout,
                 notes, executions, lessons, metrics, recorded, ranked,
                 sessions, saved, file, saving, loaded, bn, rt, keyring,
                 statedoc>>
  /\ UNCHANGED <<nops, budget, wfvars>>

NextRetry ==
  \/ RequestBegin
  \/ \E o \in Responses : RequestAttempt(o)
  \/ RequestExhausted

InitRetry == InitEnv /\ budget = MaxOps /\ WfIdle

SpecRetry == InitRetry /\ [][NextRetry]_vars

InitMem == InitEnv /\ budget = MaxMemOps /\ WfIdle

SpecSess == InitMem /\ [][NextSess]_vars

\* The execution history
NextHist ==
  \E r \in {"engineer", "reviewer"}, o \in Outcomes3 :
     MemoryRecordExecution(1, r, o)

SpecHist == InitMem /\ [][NextHist]_vars

\* The lessons
NextLessons ==
  \/ \E id \in LessonIds, c \in Categories, t \in LessonTexts,
        e \in StartEffectiveness : AddLesson(id, c, t, e)
  \/ \E id \in LessonIds, o \in Outcomes3 : UpdateLessonEffectiveness(id, o)

SpecLessons == InitMem /\ [][NextLessons]_vars

\* One run of the orchestrator
NextWf ==
  \/ \E it \in IssueTypes, ls \in LabelLists, r \in {NoRole, "engineer"},
        wt \in {NoType, "spike", "single_agent"}, sdk \in Sdks,
        mw \in BOOLEAN :
       RunWorkflow(it, ls, r, wt, sdk, mw)
  \/ \E o \in AgentOutcomes, recOk \in BOOLEAN : SingleInvoke(o, recOk)
  \/ \E o \in AgentOutcomes, recOk \in BOOLEAN : GraphInvoke(o, recOk)
  \/ \E o \in AgentOutcomes, recOk \in BOOLEAN : SeqInvoke(o, recOk)

SpecWf == Init /\ [][NextWf]_vars

\* ------------------------------------------------------------ properties
Registered(ws, i) == \E k \in 1..Len(ws) : ws[k].issue = i

\* The role the registry's first entry for issue i carries
RoleOf(ws, i) ==
  ws[CHOOSE k \in 1..Len(ws) :
       ws[k].issue = i /\ \A j \in 1..(k - 1) : ws[j].issue # i].role

Targets == Roles \cup {NoRole}

AllDodEnvs == DodEnvs \cup {DodSkipped}

\* C1: spawn for an issue that already has a registered environment fails
\* with "already exists" and leaves the registry, the checkouts, the
\* branches, the notes and the memory store as they were.
C1_SpawnExistingRejected ==
  [][\A i \in Issues, r \in Roles, t \in TitleHints :
       (Registered(worktrees, i) /\ Spawn(i, r, t))
         => (/\ last' = Result("spawn", i, "already_exists")
             /\ UNCHANGED sysvars)]_vars

C1_Witness ==
  \E i \in Issues :
    /\ last = Result("spawn", i, "already_exists")
    /\ Registered(worktrees, i)

\* C2: whatever spawn, start, handoff, complete, recover and doctor do and
\* however their git calls end, the registry never holds two environments
\* for one issue.
C2_AtMostOnePerIssue ==
  \A i \in Issues :
    Cardinality({k \in 1..Len(worktrees) : worktrees[k].issue = i}) <= 1

\* start reached an issue that already holds an environment and was refused
C2_Witness ==
  \E i \in Issues :
    /\ last = Result("start", i, "failed")
    /\ Registered(worktrees, i)
    /\ checkout[i].exists

\* C3: between operations, the role in the note on a registered
\* environment's branch is the role the registry holds for it.
C3_NoteRoleIsRegistryRole ==
  \A k \in 1..Len(worktrees) :
    get_branch_note(notes, branches, worktrees[k].branch).role
      = worktrees[k].role

\* C4: on a checkout with uncommitted changes, complete without force fails
\* and changes nothing; complete with force succeeds and takes the
\* environment out of the registry.
C4_ForceDecidesDirtyComplete ==
  [][\A i \in Issues, keep, push, pr \in BOOLEAN :
       (Registered(worktrees, i) /\ checkout[i].exists /\ checkout[i].dirty)
         => /\ Complete(i, FALSE, keep, push, pr)
                 => (/\ last'.op = "complete"
                     /\ last'.res \in {"uncommitted", "status_failed"}
                     /\ UNCHANGED sysvars)
            /\ Complete(i, TRUE, keep, push, pr)
                 => (/\ last' = Result("complete", i, "ok")
                     /\ ~Registered(worktrees', i))]_vars

\* A run of run_workflow over a role sequence (not the single-agent mode)
MultiStep == wf_pc # "idle" /\ wf_pc # "single" /\ wf_args.role = NoRole

RunEnded == wf_pc \in {"done", "raised"}

\* C5: run_workflow invokes the roles of the resolved sequence in order
\* (engineer then reviewer for a story without labels); once a step fails no
\* further role is invoked and the run returns success = false with the
\* failing role named in the error.
C5_InOrderAndStopsAtFailure ==
  MultiStep =>
    /\ (wf_args.issue_type = "story" /\ wf_args.labels = <<>>
          /\ wf_args.workflow_type = NoType)
         => wf_steps = <<"engineer", "reviewer">>
    /\ \A k \in 1..Len(wf_invoked) :
         /\ k <= Len(wf_steps)
         /\ wf_invoked[k].role = wf_steps[k]
         /\ wf_invoked[k].outcome # "ok"
              => /\ k = Len(wf_invoked)
                 /\ RunEnded
                 /\ wf_result.returned
                 /\ ~wf_result.success
                 /\ wf_result.error.step = wf_invoked[k].role

\* The successor table of the specification
Successor(r) ==
  CASE r = "pm" -> "architect"
    [] r = "architect" -> "engineer"
    [] r = "engineer" -> "reviewer"
    [] r = "ux" -> "engineer"
    [] OTHER -> NoRole

\* C6: a handoff that succeeds leaves the environment with the explicit
\* target role if one was given and with the successor of its role
\* otherwise; a handoff changes no entry of another issue, no field but the
\* role, and the role to nothing but that next role.
C6_HandoffSetsNextRole ==
  [][\A i \in Issues, to \in Targets, skip \in BOOLEAN, env \in AllDodEnvs :
       (Registered(worktrees, i) /\ Handoff(i, to, skip, env))
         => LET r == RoleOf(worktrees, i)
                expected == IF to # NoRole THEN to ELSE Successor(r)
            IN
            /\ Len(worktrees') = Len(worktrees)
            /\ last'.res = "ok" => RoleOf(worktrees', i) = expected
            /\ \A k \in 1..Len(worktrees) :
                 \/ worktrees'[k] = worktrees[k]
                 \/ /\ worktrees[k].issue = i
                    /\ expected # NoRole
                    /\ worktrees'[k] = [worktrees[k] EXCEPT !.role = expected]
       ]_vars

\* a handoff with an explicit target that differs from the successor
C6_Witness ==
  \E i \in Issues :
    /\ last = Result("handoff", i, "ok")
    /\ Registered(worktrees, i)
    /\ RoleOf(worktrees, i) = "pm"

\* Default handoffs left before the reviewer
Rank(r) ==
  CASE r = "pm" -> 3
    [] r = "architect" -> 2
    [] r = "ux" -> 2
    [] r = "engineer" -> 1
    [] OTHER -> 0

\* C7: under default handoffs a role is at most three handoffs from the
\* reviewer and every successful handoff brings it one closer; at the
\* reviewer a default handoff fails with "no next role" and changes
\* nothing, and the environment stays a reviewer's until complete removes it.
C7_DefaultChainEndsAtReviewer ==
  [][\A i \in Issues :
       Registered(worktrees, i) =>
         LET r == RoleOf(worktrees, i) IN
         /\ \A skip \in BOOLEAN, env \in AllDodEnvs :
              Handoff(i, NoRole, skip, env) =>
                IF r = "reviewer"
                THEN /\ last' = Result("handoff", i, "no_next_role")
                     /\ UNCHANGED sysvars
                ELSE /\ Registered(worktrees', i)
                     /\ last'.res = "ok"
                          => Rank(RoleOf(worktrees', i)) = Rank(r) - 1
                     /\ \/ RoleOf(worktrees', i) = r
                        \/ Rank(RoleOf(worktrees', i)) = Rank(r) - 1
         /\ (r = "reviewer" /\ worktrees' # worktrees) =>
              /\ ~Registered(worktrees', i)
              /\ \E force, keep \in BOOLEAN : Complete(i, force, keep, FALSE, FALSE)
       ]_vars

\* the reviewer was reached by handoffs and a further default handoff failed
C7_Witness ==
  /\ last = Result("handoff", 1, "no_next_role")
  /\ nops = 5
  /\ Registered(worktrees, 1)
  /\ RoleOf(worktrees, 1) = "reviewer"
  /\ notes[BranchName(1, "")] = [role |-> "reviewer", status |-> "handoff"]

\* Some check of the issue's current role fails in this run of the checks
HasFailingCheck(i, env) ==
  LET checks == DOD_CHECKLISTS[RoleOf(worktrees, i)] IN
  \E k \in 1..Len(checks) :
    ~run_dod_check(worktrees, checkout, i, checks[k], env)

\* C8: without --skip-validation, a handoff whose checklist has a failing
\* check is rejected and the registry, the notes, the memory store and the
\* rest of the system stay as they were.
C8_FailingDodRejectsHandoff ==
  [][\A i \in Issues, to \in Targets, env \in DodEnvs :
       (Registered(worktrees, i) /\ HasFailingCheck(i, env)
          /\ Handoff(i, to, FALSE, env))
         => /\ last'.op = "handoff"
            /\ last'.res \in {"dod_failed", "no_next_role"}
            /\ NextRole(RoleOf(worktrees, i), to) # NoRole
                 => last'.res = "dod_failed"
            /\ UNCHANGED sysvars]_vars

C8_Witness ==
  \E i \in Issues :
    /\ last = Result("handoff", i, "dod_failed")
    /\ Registered(worktrees, i)

\* C9: handoff, complete and recover for an issue with no registered
\* environment fail with "no SubAgent" and change nothing.
C9_NoEnvironmentNoEffect ==
  [][\A i \in Issues :
       ~Registered(worktrees, i) =>
         /\ \A to \in Targets, skip \in BOOLEAN, env \in AllDodEnvs :
              Handoff(i, to, skip, env)
                => (/\ last' = Result("handoff", i, "no_subagent")
                    /\ UNCHANGED sysvars)
         /\ \A force, keep, push, pr \in BOOLEAN :
              Complete(i, force, keep, push, pr)
                => (/\ last' = Result("complete", i, "no_subagent")
                    /\ UNCHANGED sysvars)
         /\ Recover(i)
              => (/\ last' = Result("recover", i, "no_subagent")
                  /\ UNCHANGED sysvars)]_vars

\* refused for one issue while another holds an environment
C9_Witness ==
  \E i \in Issues :
    /\ last.res = "no_subagent"
    /\ last.op \in {"handoff", "complete", "recover"}
    /\ last.issue = i
    /\ ~Registered(worktrees, i)
    /\ worktrees # <<>>

\* C10: no exception of an agent invocation leaves run_workflow: every run
\* ends by returning a WorkflowResult.
C10_NoExceptionLeavesRunWorkflow == wf_pc # "raised"

\* C11: when run_workflow has returned its result, and the memory layer
\* took every write, the store holds exactly one record per agent invoked,
\* in order, under the invoked role, with outcome success for a completed
\* step and failure for the failing one, whichever strategy ran the agents.
C11_OneRecordPerRoleAttempted ==
  (wf_result.returned /\ \A k \in 1..Len(wf_invoked) : wf_invoked[k].stored)
    => /\ Len(wf_records) = Len(wf_invoked)
       /\ \A k \in 1..Len(wf_invoked) :
            /\ wf_records[k].role = wf_invoked[k].role
            /\ wf_records[k].outcome =
                 IF wf_invoked[k].outcome = "ok" THEN "success" ELSE "failure"

\* _run_sequential run to its end on the agents' outcomes, one per step
\* reached: the WorkflowResult it returns
RECURSIVE SequentialResult(_, _, _, _, _, _, _)
SequentialResult(steps, outcomes, k, outputs, completed, results, wf_type) ==
  IF k > Len(steps)
  THEN WorkflowResult(TRUE, outputs,
         IF steps[Len(steps)] \in outputs THEN steps[Len(steps)] ELSE "",
         completed, results, NoError, wf_type)
  ELSE IF outcomes[k] = "ok"
  THEN SequentialResult(steps, outcomes, k + 1, outputs \cup {steps[k]},
         Append(completed, steps[k]),
         Append(results, StepResult(steps[k], TRUE)), wf_type)
  ELSE WorkflowResult(FALSE, outputs,
         IF completed = <<>> THEN "" ELSE completed[Len(completed)],
         completed, Append(results, StepResult(steps[k], FALSE)),
         [step |-> steps[k], msg |-> outcomes[k]], wf_type)

\* The agents' outcomes of the run, in invocation order
Outcomes == [k \in 1..Len(wf_invoked) |-> wf_invoked[k].outcome]

AllVia(via) == \A k \in 1..Len(wf_invoked) : wf_invoked[k].via = via

\* The fields of a WorkflowResult the two strategies are to agree on
Shape(r) ==
  [returned |-> r.returned, success |-> r.success, outputs |-> r.outputs,
   steps_completed |-> r.steps_completed, step_results |-> r.step_results,
   final_output |-> r.final_output]

\* C12: the result a run of the graph strategy returns is the one the
\* sequential strategy returns for the same role sequence and the same
\* agent outcomes: success, steps_completed, outputs, step results and
\* final output are equal.
C12_GraphMatchesSequential ==
  (MultiStep /\ wf_result.returned /\ AllVia("graph"))
    => Shape(wf_result)
         = Shape(SequentialResult(wf_steps, Outcomes, 1, {}, <<>>, <<>>,
                                  ResolvedType(wf_args)))

\* The sequential strategy itself returns SequentialResult
SequentialAgrees ==
  (MultiStep /\ wf_result.returned /\ AllVia("seq"))
    => wf_result = SequentialResult(wf_steps, Outcomes, 1, {}, <<>>, <<>>,
                                    ResolvedType(wf_args))

\* C13: recover never changes the registry; on an environment whose checkout
\* exists it changes nothing at all; on one whose checkout is missing and
\* whose branch is gone it fails with the message naming
\* `subagent complete --force`, and changes nothing.
C13_RecoverNoOpOrRemediation ==
  [][\A i \in Issues :
       (Registered(worktrees, i) /\ Recover(i))
         => /\ worktrees' = worktrees
            /\ checkout[i].exists => UNCHANGED sysvars
            /\ (~checkout[i].exists
                /\ worktrees[get_worktree(worktrees, i)].branch \notin branches)
                 => /\ last'.res = "branch_not_found"
                    /\ UNCHANGED sysvars]_vars

\* C14: a complete that got past the check for uncommitted changes, with
\* push or a pull request asked for, removes the environment from the
\* registry and, unless the removal of the worktree itself is refused,
\* leaves no checkout, whatever `git push` and `gh pr create` did.
C14_RemoteStepsNeverStopComplete ==
  [][\A i \in Issues, f, k, push, pr \in BOOLEAN :
       (/\ Registered(worktrees, i)
        /\ push \/ pr
        /\ Complete(i, f, k, push, pr)
        /\ last'.res \notin {"uncommitted", "status_failed", "remove_failed"})
         => /\ ~Registered(worktrees', i)
            /\ ~f => ~checkout'[i].exists]_vars

\* C15: when the last command was a spawn that reported success, the
\* branch of the environment exists, its checkout exists on that branch,
\* the registry holds the issue, and the note of the branch carries the
\* role of the registry entry with status spawned.
C15_SpawnPostconditions ==
  \A i \in Issues :
    last = Result("spawn", i, "ok")
      => /\ Registered(worktrees, i)
         /\ LET wt == worktrees[get_worktree(worktrees, i)] IN
            /\ wt.branch \in branches
            /\ checkout[i].exists
            /\ checkout[i].branch = wt.branch
            /\ get_branch_note(notes, branches, wt.branch)
                 = [role |-> wt.role, status |-> "spawned"]

\* C16: a complete that reports success leaves no checkout and no registry
\* entry for the issue, leaves the note of the branch with status
\* completed, and appends exactly one execution record, for the issue,
\* with the role of the environment and outcome partial under --force,
\* success otherwise.
C16_CompletePostconditions ==
  [][\A i \in Issues, f, k, push, pr \in BOOLEAN :
       (/\ Registered(worktrees, i)
        /\ Complete(i, f, k, push, pr)
        /\ last'.res = "ok")
         => LET wt == worktrees[get_worktree(worktrees, i)] IN
            /\ ~checkout'[i].exists
            /\ ~Registered(worktrees', i)
            /\ get_branch_note(notes', branches, wt.branch).status = "completed"
            /\ executions' = Append(executions,
                 ExecutionRecord(i, wt.role, "complete",
                                 IF f THEN "partial" ELSE "success"))]_vars

\* C17: a complete step deletes no branch that has commits the trunk does
\* not have, and no branch at all under --keep-branch: each such branch
\* that existed before the step exists after it.
C17_UnmergedBranchSurvivesComplete ==
  [][\A f, k, push, pr \in BOOLEAN :
       Complete(1, f, k, push, pr)
         => \A b \in branches : (k \/ b \in unmerged) => b \in branches']_vars

\* C18: the execution history never holds more than MAX_EXECUTIONS
\* records, and it is the tail of everything recorded: the most recently
\* recorded records, in the order they were recorded.
C18_HistoryIsLatestWindow ==
  LET n == Len(recorded)
      k == IF n > MAX_EXECUTIONS THEN MAX_EXECUTIONS ELSE n
  IN
  /\ Len(executions) <= MAX_EXECUTIONS
  /\ executions = SubSeq(recorded, n - k + 1, n)

\* More was recorded than the window holds, and the evicted record differs
\* from the oldest one kept
C18_Witness ==
  /\ Len(recorded) > MAX_EXECUTIONS + 1
  /\ Len(executions) = MAX_EXECUTIONS
  /\ recorded[1] # executions[1]
  /\ last.op = "record_execution"

\* C19: every stored lesson has an effectiveness between 0.1 and 1.0,
\* whatever success and failure updates it received after starting at 1.0
\* or at 0.1.
C19_EffectivenessInRange ==
  \A k \in 1..Len(lessons) :
    /\ Scale \div 10 <= lessons[k].effectiveness
    /\ lessons[k].effectiveness <= Scale

\* A lesson at 0.1 was just marked failed and is still at 0.1, next to a
\* lesson that an update moved off its start value
C19_Witness ==
  /\ last = Result("update_lesson_effectiveness", last.issue, "failure")
  /\ \E k \in 1..Len(lessons) :
       /\ lessons[k].id = last.issue
       /\ lessons[k].effectiveness = Scale \div 10
       /\ lessons[k].applied_count >= 1
  /\ \E k \in 1..Len(lessons) :
       /\ lessons[k].applied_count >= 1
       /\ lessons[k].effectiveness \notin StartEffectiveness

\* The store holds one lesson, put there by the one call made so far
OneLessonAdded ==
  /\ nops = 1 /\ last.op = "add_lesson"
  /\ Len(lessons) = 1

\* C20 as stated: a second lesson with the category and text of the one
\* stored, under another id, leaves one stored lesson with applied-count 2.
C20_SecondAddCountsTwo ==
  [][\A id \in LessonIds, e \in StartEffectiveness :
       (/\ OneLessonAdded
        /\ id # lessons[1].id
        /\ AddLesson(id, lessons[1].category, lessons[1].lesson, e))
         => /\ Len(lessons') = 1
            /\ lessons'[1].applied_count = 2]_vars

\* C20, amended: a second lesson with the category and text of the one
\* stored, under another id, leaves one stored lesson, the first one, with
\* applied-count 1: the first add stores applied-count 0 and each similar
\* add raises it by one.
C20_SecondAddCountsOne ==
  [][\A id \in LessonIds, e \in StartEffectiveness :
       (/\ OneLessonAdded
        /\ id # lessons[1].id
        /\ AddLesson(id, lessons[1].category, lessons[1].lesson, e))
         => /\ Len(lessons') = 1
            /\ lessons'[1] = [lessons[1] EXCEPT !.applied_count = 1]]_vars

\* Two calls were made, the second an add of a similar lesson under
\* another id
C20_Witness ==
  /\ nops = 2
  /\ last.op = "add_lesson" /\ last.res = "similar"
  /\ Len(lessons) = 1
  /\ lessons[1].id # last.issue
  /\ lessons[1].applied_count = 1

\* The lessons of a store, as a set
Stored(ls) == {ls[k] : k \in 1..Len(ls)}

\* C21: after every add_lesson call the store holds at most MAX_LESSONS
\* lessons; when the insertion made it longer, one lesson of the store
\* plus the new one was dropped, and none of the lessons kept has a lower
\* effectiveness x applied_count than the one dropped.
C21_PruneKeepsHighestKeys ==
  [][\A id \in LessonIds, c \in Categories, t \in LessonTexts,
        e \in StartEffectiveness :
       AddLesson(id, c, t, e)
         => LET l == LessonLearned(id, c, t, e)
                all == Stored(lessons) \cup {l}
            IN
            /\ Len(lessons') <= MAX_LESSONS
            /\ (FirstSimilar(lessons, l, 1) = 0
                /\ Len(lessons) + 1 > MAX_LESSONS)
                 => /\ Len(lessons') = MAX_LESSONS
                    /\ Stored(lessons') \subseteq all
                    /\ \A kept \in Stored(lessons'),
                          dropped \in all \ Stored(lessons') :
                         PruneKey(kept) >= PruneKey(dropped)]_vars

\* An add has just pruned a full store that holds a lesson with a key
\* above zero, which the pruning moved to the front
C21_Witness ==
  /\ last.op = "add_lesson" /\ last.res = "pruned"
  /\ Len(lessons) = MAX_LESSONS
  /\ PruneKey(lessons[1]) > 0
  /\ PruneKey(lessons[Len(lessons)]) = 0

\* The score as the ranking is described, times four: effectiveness x
\* (applied_count + 1), x 1.5 for the issue type asked for, x 1.5 for the
\* role asked for, x 2.0 for a category asked for
StatedScore(l) ==
  l.effectiveness * (l.applied_count + 1)
    * (IF l.issue_type = ranked.query.issue_type THEN 3 ELSE 2)
    * (IF l.role = ranked.query.role THEN 3 ELSE 2)
    * (IF l.category \in ranked.query.categories THEN 2 ELSE 1)

\* The stored lessons that rank ahead of the i-th: a higher score, or the
\* same score and stored earlier
Ahead(i) ==
  {j \in 1..Len(lessons) :
     \/ StatedScore(lessons[j]) > StatedScore(lessons[i])
     \/ StatedScore(lessons[j]) = StatedScore(lessons[i]) /\ j < i}

\* C22: the result of get_lessons_for_context has min(limit, number of
\* stored lessons) entries, its k-th entry is the stored lesson with
\* exactly k - 1 lessons ahead of it (by score, equal scores in store
\* order), and a lesson whose category was asked for is ahead of a lesson
\* that differs from it only in a category not asked for.
C22_RankedByScore ==
  ranked.asked
    => LET r == ranked.result
           n == Len(lessons)
       IN
       /\ Len(r) = IF ranked.limit < n THEN ranked.limit ELSE n
       /\ \A k \in 1..Len(r) :
            \E i \in 1..n : r[k] = lessons[i] /\ Cardinality(Ahead(i)) = k - 1
       /\ \A i, j \in 1..n :
            (/\ lessons[i].category \in ranked.query.categories
             /\ lessons[j].category \notin ranked.query.categories
             /\ lessons[i].effectiveness = lessons[j].effectiveness
             /\ lessons[i].applied_count = lessons[j].applied_count
             /\ lessons[i].issue_type = lessons[j].issue_type
             /\ lessons[i].role = lessons[j].role)
              => i \in Ahead(j)

\* Two lessons alike but for the category, the second one's asked for: a
\* ranking cut to one lesson returns the second
C22_Witness ==
  /\ ranked.asked /\ ranked.limit = 1
  /\ Len(lessons) = 2
  /\ lessons[2].category \in ranked.query.categories
  /\ lessons[1].category \notin ranked.query.categories
  /\ lessons[1].effectiveness = lessons[2].effectiveness
  /\ lessons[1].applied_count = lessons[2].applied_count
  /\ lessons[1].issue_type = lessons[2].issue_type
  /\ lessons[1].role = lessons[2].role
  /\ ranked.result = <<lessons[2]>>

\* C23: update_lesson_effectiveness with outcome partial leaves every
\* stored lesson, the targeted one included, as it was.
C23_PartialIsNoOp ==
  [][\A id \in LessonIds :
       UpdateLessonEffectiveness(id, "partial") => lessons' = lessons]_vars

\* The last MAX_SESSIONS_PER_ISSUE entries of a sequence
LastSessions(all) ==
  IF Len(all) > MAX_SESSIONS_PER_ISSUE
  THEN SubSeq(all, Len(all) - MAX_SESSIONS_PER_ISSUE + 1, Len(all))
  ELSE all

\* C24: after every save_session, each issue's stored sessions are the
\* last MAX_SESSIONS_PER_ISSUE saved for it, in save order; the latest
\* session of the issue saved for is the session just saved; and no other
\* issue's stored sessions have changed.
C24_SessionsAreLatestPerIssue ==
  [][\A i \in Issues, sid \in SessionIds :
       SaveSession(i, sid)
         => /\ \A j \in Issues : sessions'[j] = LastSessions(saved'[j])
            /\ get_latest_session(sessions', i) = SessionContext(i, sid)
            /\ \A j \in Issues \ {i} : sessions'[j] = sessions[j]]_vars

\* An issue has had more sessions saved than are kept, the evicted one
\* differing from the oldest kept, while another issue holds sessions too
C24_Witness ==
  /\ last.op = "save_session"
  /\ Len(saved[last.issue]) > MAX_SESSIONS_PER_ISSUE
  /\ Len(sessions[last.issue]) = MAX_SESSIONS_PER_ISSUE
  /\ saved[last.issue][1] # sessions[last.issue][1]
  /\ \E j \in Issues \ {last.issue} : sessions[j] # <<>>

\* The workflow type as determineWorkflow is described: the type named by
\* the first label type:X with a known X, else the type of the issue's own
\* type field, else story
StatedWorkflow(issue_type, labels) ==
  LET known == {k \in 1..Len(labels) :
                  /\ labels[k].typed
                  /\ Lower(labels[k].name) \in DOMAIN ISSUE_TYPE_MAP}
      first == CHOOSE k \in known : \A j \in known : k <= j
  IN
  IF known # {} THEN ISSUE_TYPE_MAP[Lower(labels[first].name)]
  ELSE IF Lower(issue_type) \in DOMAIN ISSUE_TYPE_MAP
  THEN ISSUE_TYPE_MAP[Lower(issue_type)]
  ELSE "story"

\* C25: a run given neither a role nor a workflow type takes the role
\* sequence of the type that a label type:X with a known X names, else of
\* the issue's own type, else of story; labels without the type: prefix
\* do not matter.
C25_OnlyTypeLabelsDecide ==
  (wf_pc # "idle" /\ wf_args.role = NoRole /\ wf_args.workflow_type = NoType)
    => wf_steps
         = WORKFLOW_STEPS[StatedWorkflow(wf_args.issue_type, wf_args.labels)]

\* C26: whatever the file of a store holds, constructing the store yields
\* the document read or the default document: no exception, and no value
\* on which the accessors fail.
C26_LoadNeverFails ==
  loaded # NoLoad => loaded.outcome \in {"document", "default"}

\* C27: a load never reads a file that a save has emptied and not yet
\* written out again.
C27_LoadNeverSeesPartialFile ==
  loaded # NoLoad => loaded.observed # "truncated"

\* C28: a remote request is attempted at most MAX_RETRIES = 3 times; every
\* attempt but the last ended in a 5xx response or a network error; a 4xx
\* response ends the call with that error, after one attempt when it is the
\* first response; a response with a JSON body is returned at once; after
\* three retriable failures the last of them is raised.
C28_BoundedRetry ==
  LET n == Len(rq.seen) IN
  /\ n <= MAX_RETRIES
  /\ rq.attempt = n
  /\ \A k \in 1..n :
       /\ k < n => rq.seen[k] \in {"500", "503", "URLError", "OSError"}
       /\ ClientError(rq.seen[k]) =>
            /\ k = n
            /\ rq.pc = "raised"
            /\ rq.result = rq.seen[k]
       /\ rq.seen[k] = "200" =>
            /\ k = n
            /\ rq.pc = "returned"
            /\ rq.result = "200"
  /\ rq.pc = "returned" => n >= 1 /\ rq.seen[n] = "200"
  /\ rq.pc = "raised" =>
       /\ n >= 1
       /\ rq.result = rq.seen[n]
       /\ rq.seen[n] \in {"500", "503", "URLError", "OSError"} =>
            n = MAX_RETRIES
  /\ rq.pc = "loop" /\ n >= 1 =>
       rq.seen[n] \in {"500", "503", "URLError", "OSError"}

\* The attempts are exhausted: three failures, the last one raised
C28_Witness ==
  /\ rq.pc = "raised"
  /\ rq.seen = <<"500", "URLError", "503">>
  /\ rq.result = "503"

\* The note of a registered environment exists and names another role than
\* the registry does
Desync ==
  \E k \in 1..Len(worktrees) :
    LET wt == worktrees[k] IN
    /\ wt.branch \in branches
    /\ notes[wt.branch] # NoNote
    /\ notes[wt.branch].role # wt.role

\* C29: when doctor runs while the registry and the note of a registered
\* environment disagree on the role, doctor does not end with all checks
\* passed.
C29_DoctorReportsDesync ==
  [][\A fix \in BOOLEAN :
       (Desync /\ Doctor(fix)) => last'.res # "ok"]_vars

\* The name starts with the whole prefix issue-<id>-
StartsWithPrefix(name, issue) ==
  /\ Len(name) >= Len(BranchPrefix(issue))
  /\ SubSeq(name, 1, Len(BranchPrefix(issue))) = BranchPrefix(issue)

PyInt(n) == [t |-> "int", v |-> n]
PyFloat(x) == [t |-> "float", v |-> x]
PyStr(text) == [t |-> "str", v |-> text]
PyList(seq) == [t |-> "list", v |-> seq]
PyDict(f) == [t |-> "dict", v |-> f]

\* A dict with the str keys and the values of a record
Dict(fields) ==
  PyDict([k \in {PyStr(n) : n \in DOMAIN fields} |-> fields[k.v]])

\* The name json.dump writes for a dict key: a str key as it is, an int key
\* as its decimal digits
KeyName(k) == IF k.t = "str" THEN k.v ELSE Str(k.v)

\* json.dump: the JSON value written for a Python value. Lists and tuples
\* both become arrays, every key of a dict becomes a string.
RECURSIVE json_dump(_)
json_dump(x) ==
  CASE x.t = "int" -> [t |-> "number", v |-> x.v]
    [] x.t = "float" -> [t |-> "real", v |-> x.v]
    [] x.t = "str" -> [t |-> "string", v |-> x.v]
    [] x.t \in {"list", "tuple"} ->
         [t |-> "array", v |-> [k \in 1..Len(x.v) |-> json_dump(x.v[k])]]
    [] x.t = "dict" ->
         [t |-> "object",
          v |-> [name \in {KeyName(k) : k \in DOMAIN x.v} |->
                   json_dump(x.v[CHOOSE k \in DOMAIN x.v :
                                    KeyName(k) = name])]]

\* json.load: the Python value read from a JSON value
RECURSIVE json_load(_)
json_load(j) ==
  CASE j.t = "number" -> PyInt(j.v)
    [] j.t = "real" -> PyFloat(j.v)
    [] j.t = "string" -> PyStr(j.v)
    [] j.t = "array" -> PyList([k \in 1..Len(j.v) |-> json_load(j.v[k])])
    [] j.t = "object" ->
         PyDict([k \in {PyStr(name) : name \in DOMAIN j.v} |->
                   json_load(j.v[k.v])])

\* A key that keeps the issue number as an int
IssueKey_int(issue) ==
  PyInt(issue)

\* str(issue), the key of local_issues and of sessions
IssueKey(issue) ==
  PyStr(Str(issue))

\* WorktreeInfo.to_dict: asdict
to_dict(wt) ==
  Dict([issue |-> PyInt(wt.issue), branch |-> PyStr(wt.branch),
        role |-> PyStr(wt.role)])

\* WorktreeInfo.from_dict: cls(**data)
from_dict(d) ==
  WorktreeInfo(d.v[PyStr("issue")].v, d.v[PyStr("branch")].v,
               d.v[PyStr("role")].v)

\* State._data: the registry entries as add_worktree stores them and the
\* local issues under str(issue_number)
StateDocument(ws, li) ==
  Dict([version |-> PyStr("1.0"),
        worktrees |-> PyList([k \in 1..Len(ws) |-> to_dict(ws[k])]),
        local_issues |->
          PyDict([k \in {IssueKey(i) : i \in li} |->
                    Dict([number |-> PyInt(CHOOSE i \in li : IssueKey(i) = k),
                          state |-> PyStr("open")])])])

\* LessonLearned.to_dict
LessonDict(l) ==
  Dict([id |-> PyInt(l.id), category |-> PyStr(l.category),
        lesson |-> PyStr(l.lesson), applied_count |-> PyInt(l.applied_count),
        effectiveness |-> PyFloat(l.effectiveness),
        issue_type |-> PyStr(l.issue_type), role |-> PyStr(l.role)])

\* ExecutionRecord.to_dict
ExecutionDict(e) ==
  Dict([issue |-> PyInt(e.issue), role |-> PyStr(e.role),
        action |-> PyStr(e.action), outcome |-> PyStr(e.outcome)])

\* SessionContext.to_dict
SessionDict(c) ==
  Dict([issue |-> PyInt(c.issue), session_id |-> PyStr(c.session_id)])

\* The metrics with by_role holding the roles recorded so far
MetricsDict(m) ==
  Dict([total_executions |-> PyInt(m.total_executions),
        success_count |-> PyInt(m.success_count),
        failure_count |-> PyInt(m.failure_count),
        partial_count |-> PyInt(m.partial_count),
        by_role |->
          PyDict([k \in {PyStr(r) : r \in {q \in Roles :
                                             m.by_role[q].total > 0}} |->
                    Dict([total |-> PyInt(m.by_role[k.v].total),
                          success |-> PyInt(m.by_role[k.v].success),
                          failure |-> PyInt(m.by_role[k.v].failure)])])])

\* Memory._data: sessions are kept under str(session.issue)
MemoryDocument(ls, ex, ss, m) ==
  Dict([version |-> PyStr("1.0"),
        lessons |-> PyList([k \in 1..Len(ls) |-> LessonDict(ls[k])]),
        executions |-> PyList([k \in 1..Len(ex) |-> ExecutionDict(ex[k])]),
        sessions |->
          PyDict([k \in {IssueKey(i) : i \in {j \in Issues : ss[j] # <<>>}} |->
                    LET i == CHOOSE j \in Issues : IssueKey(j) = k
                    IN PyList([n \in 1..Len(ss[i]) |-> SessionDict(ss[i][n])])]),
        metrics |-> MetricsDict(m)])

\* The metadata of a branch's note
NoteDocument(issue, note) ==
  Dict([issue |-> PyInt(issue), role |-> PyStr(note.role),
        status |-> PyStr(note.status), commits |-> PyInt(0)])

\* What went in and what came back; nothing else changes
RoundTrip(kind, original, restored) ==
  /\ rt' = [kind |-> kind, original |-> original, restored |-> restored]
  /\ last' = Result("round_trip", 0, kind)
  /\ UNCHANGED <<worktrees, local_issues, branches, unmerged, checkout,
                 notes, executions, lessons, metrics, recorded, ranked,
                 sessions, saved, file, saving, loaded, rq, bn, keyring,
                 statedoc>>
  /\ UNCHANGED <<nops, budget, wfvars>>

\* A registry entry is stored with to_dict, written, read and rebuilt with
\* from_dict
EntryRoundTrip(k) ==
  /\ k \in 1..Len(worktrees)
  /\ RoundTrip("entry", worktrees[k],
               from_dict(json_load(json_dump(to_dict(worktrees[k])))))

\* State.save, then State._load in a new process (a trip just made is not
\* made again at once)
StateRoundTrip ==
  /\ rt.kind # "state"
  /\ RoundTrip("state", StateDocument(worktrees, local_issues),
               json_load(json_dump(StateDocument(worktrees, local_issues))))

\* Memory.save, then Memory._load in a new process (a trip just made is not
\* made again at once)
MemoryRoundTrip ==
  /\ rt.kind # "memory"
  /\ RoundTrip("memory",
               MemoryDocument(lessons, executions, sessions, metrics),
               json_load(json_dump(MemoryDocument(lessons, executions,
                                                  sessions, metrics))))

\* set_branch_note (json.dumps), then get_branch_note (json.loads)
NoteRoundTrip(i) ==
  \E k \in 1..Len(worktrees) :
    /\ worktrees[k].issue = i
    /\ worktrees[k].branch \in branches
    /\ notes[worktrees[k].branch] # NoNote
    /\ RoundTrip("note", NoteDocument(i, notes[worktrees[k].branch]),
                 json_load(json_dump(NoteDocument(i,
                                       notes[worktrees[k].branch]))))

InitRound == InitEnv /\ budget = MaxBranchOps /\ WfIdle

NextRound ==
  \/ \E r \in {"engineer", "reviewer"} : Start("", r)
  \/ \E o \in {"success", "failure"} : MemoryRecordExecution(1, "engineer", o)
  \/ \E i \in Issues : SaveSession(i, "s1")
  \/ \E c \in Categories : AddLesson(1, c, "a", Scale)
  \/ \E k \in 1..MaxIssue : EntryRoundTrip(k)
  \/ StateRoundTrip
  \/ MemoryRoundTrip
  \/ \E i \in Issues : NoteRoundTrip(i)

SpecRound == InitRound /\ [][NextRound]_vars

\* C31: a registry entry, the state document, the memory document and a
\* branch's note come back from serializing and deserializing equal to what
\* went in.
C31_RoundTripIsIdentity ==
  rt.kind # "none" => rt.restored = rt.original

\* A memory document holding a lesson, an execution and a session went
\* round and came back as it was
C31_Witness ==
  /\ rt.kind = "memory"
  /\ rt.restored = rt.original
  /\ rt.original = MemoryDocument(lessons, executions, sessions, metrics)
  /\ lessons # <<>>
  /\ executions # <<>>
  /\ \E i \in Issues : sessions[i] # <<>>

\* ------------------------------------------------------ the GitHub token
Tokens == {"tokA", "tokB"}

\* State.github_token (getter): the keyring's token if it can be read and
\* holds one, else the environment's GITHUB_TOKEN
github_token(kr, krReadable, env) ==
  IF krReadable /\ kr # "None" THEN kr ELSE env

\* _get_auth_token: the stored token, else the token of the gh CLI
get_auth_token(kr, krReadable, env, gh) ==
  IF github_token(kr, krReadable, env) # "None"
  THEN github_token(kr, krReadable, env) ELSE gh

\* A setter that also notes the token in the document
github_token_setter_plain(doc, token) ==
  [doc EXCEPT !.github_token = token]

\* State.github_token (setter): what it does to the document, nothing. The
\* token goes to the keyring only.
github_token_setter(doc, token) ==
  doc

\* The commands below leave everything but the keyring and the document
OnlyCredentials ==
  UNCHANGED <<worktrees, local_issues, branches, unmerged, checkout,
              notes, executions, lessons, metrics, recorded, ranked,
              sessions, saved, file, saving, loaded, rq, bn, rt>>

\* auth login: returns early when a token resolves to a user; stores the
\* token received, stamps github_token_created, saves
AuthLogin(token) ==
  /\ Tick
  /\ OnlyCredentials
  /\ \E krReadable, userOk, krWritable \in BOOLEAN, env \in Tokens \cup {"None"} :
       IF github_token(keyring, krReadable, env) # "None" /\ userOk
       THEN /\ last' = Result("login", 0, "already")
            /\ UNCHANGED <<keyring, statedoc>>
       ELSE IF ~krWritable
       THEN /\ last' = Result("login", 0, "keyring_failed")
            /\ UNCHANGED <<keyring, statedoc>>
       ELSE /\ keyring' = token
            /\ statedoc' = [github_token_setter(statedoc, token)
                              EXCEPT !.github_token_created = "timestamp"]
            /\ last' = Result("login", 0, "ok")

\* auth logout: nothing to do without a token; else deletes the keyring
\* entry (a failure is logged), clears github_token_created, saves
AuthLogout ==
  /\ Tick
  /\ OnlyCredentials
  /\ \E krReadable, krWritable \in BOOLEAN, env \in Tokens \cup {"None"} :
       IF github_token(keyring, krReadable, env) = "None"
       THEN /\ last' = Result("logout", 0, "not_authenticated")
            /\ UNCHANGED <<keyring, statedoc>>
       ELSE /\ keyring' = IF krWritable THEN "None" ELSE keyring
            /\ statedoc' = [github_token_setter(statedoc, "None")
                              EXCEPT !.github_token_created = "None"]
            /\ last' = Result("logout", 0, "ok")

\* sync --pull: needs a token, caches the issues fetched, stamps last_sync,
\* saves
SyncPull(fetched) ==
  /\ Tick
  /\ OnlyCredentials
  /\ UNCHANGED keyring
  /\ \E krReadable, apiOk \in BOOLEAN, env, gh \in Tokens \cup {"None"} :
       IF get_auth_token(keyring, krReadable, env, gh) = "None"
       THEN /\ last' = Result("sync", 0, "not_authenticated")
            /\ UNCHANGED statedoc
       ELSE IF ~apiOk
       THEN /\ last' = Result("sync", 0, "failed")
            /\ UNCHANGED statedoc
       ELSE /\ statedoc' = [statedoc EXCEPT
                              !.issue_cache = @ \cup fetched,
                              !.last_sync = "timestamp"]
            /\ last' = Result("sync", 0, "ok")

\* State.save with nothing changed
SaveState ==
  /\ Tick
  /\ OnlyCredentials
  /\ UNCHANGED <<keyring, statedoc>>
  /\ last' = Result("save", 0, "ok")

InitAuth == InitEnv /\ budget = MaxMemOps /\ WfIdle

NextAuth ==
  \/ \E token \in Tokens : AuthLogin(token)
  \/ AuthLogout
  \/ \E fetched \in SUBSET Issues : SyncPull(fetched)
  \/ SaveState

SpecAuth == InitAuth /\ [][NextAuth]_vars

\* C32: whatever logins, logouts, syncs and saves were made, no field of
\* the persisted state document holds a token; the token is in the keyring.
C32_TokenNeverInDocument ==
  /\ statedoc.github_token \notin Tokens
  /\ statedoc.github_token_created \notin Tokens
  /\ statedoc.last_sync \notin Tokens
  /\ (last.op = "login" /\ last.res = "ok") => keyring \in Tokens

\* A token was stored by a login and the document saved after it
C32_Witness ==
  /\ keyring \in Tokens
  /\ statedoc.github_token_created = "timestamp"
  /\ statedoc.last_sync = "timestamp"
  /\ statedoc.github_token = "None"

\* Environments spawned, worked in, damaged behind the tool, and looked at
InitReport == InitEnv /\ budget = MaxBranchOps /\ WfIdle

NextReport ==
  \/ \E i \in Issues, t \in TitleHints : Spawn(i, "engineer", t)
  \/ \E i \in Issues : AgentEdit(i)
  \/ \E i \in Issues : DriftRemoveCheckout(i)
  \/ \E b \in AllBranches : DriftDeleteBranch(b)
  \/ \E i \in Issues : Status(i)
  \/ \E fix \in BOOLEAN : Doctor(fix)

SpecReport == InitReport /\ [][NextReport]_vars

\* C33: status, and doctor run without --fix, leave the registry, the
\* notes, the branches, the checkouts and the memory store as they were.
C33_ReportsChangeNothing ==
  [][((\E i \in Issues : Status(i)) \/ Doctor(FALSE)) =>
       UNCHANGED <<worktrees, local_issues, notes, branches, unmerged,
                   checkout, executions, lessons, metrics, sessions>>]_vars

\* doctor found a registered environment whose checkout and branch are both
\* gone and left the entry in place, which only a run without --fix does
C33_Witness ==
  /\ last.op = "doctor"
  /\ last.res = "issues_found"
  /\ \E k \in 1..Len(worktrees) :
       /\ ~checkout[worktrees[k].issue].exists
       /\ worktrees[k].branch \notin branches

\* C34: within one run no role's agent is invoked twice, whichever
\* strategies the run goes through.
C34_EachRoleInvokedAtMostOnce ==
  \A i, j \in 1..Len(wf_invoked) :
    i # j => wf_invoked[i].role # wf_invoked[j].role

\* C35: when the agent of a later step has been invoked, and the memory
\* layer took every write, the store holds a success record under the role
\* of every step completed before it.
C35_RecordedBeforeNextStep ==
  (\A k \in 1..Len(wf_invoked) : wf_invoked[k].stored) =>
    \A k \in 1..Len(wf_invoked) :
      (k < Len(wf_invoked) /\ wf_invoked[k].outcome = "ok") =>
        \E n \in 1..Len(wf_records) :
          /\ wf_records[n].role = wf_invoked[k].role
          /\ wf_records[n].outcome = "success"


\* The number of calls of record_execution made for a role
CallsFor(role) ==
  Cardinality({n \in 1..Len(recorded) : recorded[n].role = role})

\* C36: after every sequence of record_execution calls the total is the
\* sum of the success, failure and partial counters, the total is the number
\* of calls made, whatever the window still holds, and each role's total is
\* the number of calls made for that role.
C36_CountersAddUp ==
  /\ metrics.total_executions
       = metrics.success_count + metrics.failure_count
         + metrics.partial_count
  /\ metrics.total_executions = Len(recorded)
  /\ \A r \in Roles : metrics.by_role[r].total = CallsFor(r)

\* Calls for two roles, one of them partial, and more calls than the window
\* holds
C36_Witness ==
  /\ Len(recorded) > MAX_EXECUTIONS
  /\ Len(executions) = MAX_EXECUTIONS
  /\ metrics.total_executions > Len(executions)
  /\ metrics.partial_count > 0
  /\ metrics.by_role["engineer"].total > 0
  /\ metrics.by_role["reviewer"].total > 0


\* C37: an add_lesson call with a lesson whose category and text are those
\* of a stored lesson leaves the number of stored lessons as it was, raises
\* the applied-count of that stored lesson by exactly one, and changes no
\* other field of any lesson.
C37_SimilarAddOnlyCounts ==
  [][\A id \in LessonIds, c \in Categories, t \in LessonTexts,
        e \in StartEffectiveness :
       LET k == FirstSimilar(lessons, LessonLearned(id, c, t, e), 1) IN
       (k # 0 /\ AddLesson(id, c, t, e))
         => /\ Len(lessons') = Len(lessons)
            /\ lessons'[k]
                 = [lessons[k] EXCEPT !.applied_count = @ + 1]
            /\ \A n \in 1..Len(lessons) : n # k => lessons'[n] = lessons[n]]_vars

\* A full store after an add of a similar lesson under an id and with a
\* start value that the stored lesson does not have
C37_Witness ==
  /\ last.op = "add_lesson" /\ last.res = "similar"
  /\ Len(lessons) = MAX_LESSONS
  /\ \E k \in 1..Len(lessons) :
       /\ lessons[k].applied_count >= 1
       /\ lessons[k].id # last.issue
       /\ lessons[k].effectiveness \notin StartEffectiveness


\* C40: after an add_lesson call with a lesson that matches no stored
\* lesson, the store holds that lesson, also when the store was at its cap.
C40_NewLessonIsStored ==
  [][\A id \in LessonIds, c \in Categories, t \in LessonTexts,
        e \in StartEffectiveness :
       LET l == LessonLearned(id, c, t, e) IN
       (FirstSimilar(lessons, l, 1) = 0 /\ AddLesson(id, c, t, e))
         => \E n \in 1..Len(lessons') : lessons'[n] = l]_vars


IsSeq(v) == v.via = "seq"

\* The invocations _run_sequential made, in order
SeqInvoked == SelectSeq(wf_invoked, IsSeq)

\* C38: in a sequential run the first role is given the caller's prompt and
\* every later role is given the output of the role invoked just before it;
\* the result of a run that succeeds has the last role's output as its
\* final output, and the result of a run that fails has the output of the
\* last role that completed, or the empty string when none completed. (The
\* output of a role is named by the role.)
C38_SequentialPassesOutputForward ==
  LET n == Len(SeqInvoked) IN
  /\ n >= 1 => SeqInvoked[1].input = CallerPrompt
  /\ \A k \in 2..n :
       /\ SeqInvoked[k - 1].outcome = "ok"
       /\ SeqInvoked[k].input.previous = SeqInvoked[k - 1].role
       /\ SeqInvoked[k].input.text = SeqInvoked[k - 1].role
  /\ (n >= 1 /\ wf_result.returned) =>
       IF wf_result.success
       THEN /\ SeqInvoked[n].outcome = "ok"
            /\ SeqInvoked[n].role = wf_steps[Len(wf_steps)]
            /\ wf_result.final_output = SeqInvoked[n].role
       ELSE /\ SeqInvoked[n].outcome # "ok"
            /\ wf_result.final_output
                 = IF n = 1 THEN "" ELSE SeqInvoked[n - 1].role

\* A sequential run of three roles that failed at the third: the second and
\* third were given their predecessor's output, and the final output is the
\* second role's
C38_Witness ==
  /\ Len(SeqInvoked) = 3
  /\ wf_result.returned /\ ~wf_result.success
  /\ SeqInvoked[1].input = CallerPrompt
  /\ SeqInvoked[3].input.text = SeqInvoked[2].role
  /\ wf_result.final_output = SeqInvoked[2].role
  /\ wf_result.final_output # ""


\* C39: a handoff that reports a failure of any kind, a failure to
\* regenerate the next role's context included, leaves the registry and
\* the metadata notes as they were; a handoff changes the role of an
\* environment only when it reports success.
C39_FailedHandoffChangesNothing ==
  [][\A i \in Issues, to \in Roles \cup {NoRole}, skip \in BOOLEAN :
       \A env \in (IF skip THEN {DodSkipped} ELSE DodEnvs) :
         (Handoff(i, to, skip, env) /\ last'.res # "ok")
           => worktrees' = worktrees /\ notes' = notes]_vars

====
